---- MODULE Spec2Model ----
(***************************************************************************)
(* MeterMeter: deterministic scansion engine, LLM refinement validators    *)
(* and the override arbitration of the scan CLI.                           *)
(*                                                                         *)
(* Representation.                                                         *)
(*  - A stress string is a sequence over {"U","S"}; a raw LLM string is a  *)
(*    sequence of one-character strings.                                   *)
(*  - A meter name is the sequence of its whitespace-separated lower-case  *)
(*    words: "iambic pentameter" is <<"iambic","pentameter">>, the empty   *)
(*    name is << >>.                                                       *)
(*  - Alignment costs are integers in hundredths (1.30 is 130).            *)
(*  - Scores, confidences, margins and thresholds are exact rationals      *)
(*    written as integers over the common denominator UNIT (1.0 is UNIT).  *)
(***************************************************************************)
EXTENDS Integers, Sequences, FiniteSets, TLC

VARIABLES
    pc,         \* position of the running scenario
    oracle,     \* engine: what the prosodic oracle delivers for the line
    analysis,   \* engine: the LineAnalysis returned by analyze_line (or None)
    endpoint,   \* refiner: LLMRefiner.endpoint
    batch,      \* refiner: the baselines handed to refine_lines
    resp,       \* refiner: the response to the batch call
    retry,      \* refiner: how the individual retry of each line ended
    missing,    \* refiner: lines still to be retried individually
    out,        \* refiner: accepted refinements, by line_no
    calls,      \* refiner: network calls made so far
    last_error, \* refiner: LLMRefiner.last_error
    dump,       \* refiner: the debug dump file
    raised,     \* refiner: the exception refine_lines ended with (or None)
    payload,    \* Sublime: baseline and response content given to _parse_response
    parsed,     \* Sublime: what _parse_response returned
    octx,       \* CLI: the refinement, baseline and dominant context of one line
    scan,       \* CLI: the meter and confidence reported for the line
    rule_hits,  \* CLI: what each override rule returned for the context
    scanreq,    \* main: the scan request read from stdin
    scanresp,   \* main: the payload written to stdout
    stress_in,  \* rescoring: the stress pattern handed to the engine
    verdict,    \* rescoring: what best_meter_for_stress_pattern returned
    cfg,        \* cache: the refiner's error_cooldown_ms and the scenario's extent
    cache,      \* cache: LLMRefiner._cache, by cache key
    cooldown_until, \* cache: LLMRefiner._cooldown_until
    llm_error,  \* cache: LLMRefiner._last_error
    lock,       \* cache: the thread holding LLMRefiner._lock, or 0
    now,        \* cache: time.time()
    cleared,    \* cache: clear_cache calls completed so far
    threads,    \* cache: each thread's call, position and locals
    heap,       \* objects: the lists and records allocated so far, by identity
    frame,      \* objects: which of them the pipeline's stages hold
    session,    \* session: one MeterEngine and the calls made on it so far
    sidecar,    \* sidecar: the LLMSidecarManager, its processes and the clock
    align,      \* aligner: the syllables and template given to _viterbi_for_meter
    rank,       \* ranking: a line or stress pattern and the meter the engine reports
    scanner,    \* scans: a view's ViewState, its scheduled scans and both threads
    canon       \* names: a raw meter name, its line and what canonicalising gives

vars == <<pc, oracle, analysis, endpoint, batch, resp, retry, missing, out, calls,
          last_error, dump, raised, payload, parsed, octx, scan, rule_hits, scanreq,
          scanresp,
          stress_in, verdict, cfg, cache, cooldown_until, llm_error, lock, now,
          cleared, threads, heap, frame, session, sidecar, align, rank, scanner, canon>>
engineVars == <<oracle, analysis>>
refinerVars == <<endpoint, batch, resp, retry, missing, out, calls, last_error,
                 dump, raised>>
sublimeVars == <<payload, parsed>>
cliVars == <<octx, scan, rule_hits>>
mainVars == <<scanreq, scanresp>>
patternVars == <<stress_in, verdict>>
cacheVars == <<cfg, cache, cooldown_until, llm_error, lock, now, cleared, threads>>
frameVars == <<heap, frame>>
\* the scenarios that follow the cache scenario
finalVars == <<rank, scanner, canon>>
laterVars == <<session, sidecar, align, finalVars>>
extraVars == <<frameVars, laterVars>>

None == "None"

(***************************************************************************)
(* Bounds of the model.                                                    *)
(***************************************************************************)
MaxWords == 3       \* words the oracle delivers for one line
MaxBatch == 3       \* baselines in one refine_lines batch

(***************************************************************************)
(* Arithmetic.                                                             *)
(***************************************************************************)
\* 1.0 as an integer: a multiple of 200 * d for every normalizer d in 1..16
\* and 18, so that 1 - cost/d and the 50/50 blend are exact.
UNIT == 200 * 720720
Pct(h) == h * (UNIT \div 100)

Min(a, b) == IF a <= b THEN a ELSE b
Max(a, b) == IF a >= b THEN a ELSE b
Clamp01(x) == Max(0, Min(UNIT, x))

RECURSIVE Flatten(_)
Flatten(ss) == IF ss = << >> THEN << >> ELSE Head(ss) \o Flatten(Tail(ss))

RECURSIVE SumLen(_)
SumLen(ss) == IF ss = << >> THEN 0 ELSE Len(Head(ss)) + SumLen(Tail(ss))

Repeat(ch, k) == [i \in 1..k |-> ch]
IsStress(p) == \A i \in 1..Len(p) : p[i] \in {"U", "S"}

(***************************************************************************)
(* meter_engine.py: tables and constants.                                  *)
(***************************************************************************)
Feet == <<"iambic", "trochaic", "anapestic", "dactylic">>
FootNames == {"iambic", "trochaic", "anapestic", "dactylic"}

FOOT_TEMPLATES(foot) ==
    CASE foot = "iambic" -> <<"U", "S">>
      [] foot = "trochaic" -> <<"S", "U">>
      [] foot = "anapestic" -> <<"U", "U", "S">>
      [] foot = "dactylic" -> <<"S", "U", "U">>

\* no feminine ending, catalexis or opening substitution
METER_LENGTH_DELTAS_exact(foot) == {0}

METER_LENGTH_DELTAS(foot) == IF foot = "iambic" THEN {0, 1} ELSE {0 - 1, 0}

LINE_NAME_BY_FEET ==
    <<"monometer", "dimeter", "trimeter", "tetrameter", "pentameter", "hexameter">>
LineNames == {LINE_NAME_BY_FEET[k] : k \in 1..6}

BINARY_FIRST_POS_DISCOUNT == 50
LENGTH_MISMATCH_COST == 85
FEMININE_ENDING_COST == 30
IAMBIC_PENTAMETER_BONUS == 18
TROCHAIC_PENTAMETER_BONUS == 3
TERNARY_METER_PENALTY == 14
IAMBIC_BIAS_THRESHOLD == 10
IAMBIC_HEXAMETER_BONUS == 12
IAMBIC_FIRST_FOOT_PENALTY == 16
IAMBIC_SPONDEE_PENALTY == 34
IAMBIC_WEAK_STRONG_PENALTY == 58
TROCHAIC_FIRST_FOOT_PENALTY == 18
TROCHAIC_SPONDEE_PENALTY == 38
TROCHAIC_WEAK_STRONG_PENALTY == 54
MONO_FLIP_COST == 130
POLY_FLIP_COST == 175
FUNCTION_TO_STRONG_FLIP_COST == 85
STRONG_TO_WEAK_FLIP_COST == 105
CONTEXT_PRIOR_MAX_BONUS == 12
\* the finite stand-in (inf = 1e12) and float("inf"): larger than any path cost
INF == 1000000000

MeterName(foot, feet) == <<foot, LINE_NAME_BY_FEET[feet]>>

\* METER_NAME_RE: the canonical-name grammar, on a lower-cased, stripped name
IsCanonicalName(name) ==
    /\ Len(name) = 2
    /\ name[1] \in FootNames
    /\ name[2] \in LineNames

FeetOfLine(line) == CHOOSE k \in 1..6 : LINE_NAME_BY_FEET[k] = line

\* _parse_meter_name: << >> for None, or <<foot, feet>>
parse_meter_name(name) ==
    IF IsCanonicalName(name) THEN <<name[1], FeetOfLine(name[2])>> ELSE << >>

template_for_meter(foot, feet) ==
    [j \in 1..(Len(FOOT_TEMPLATES(foot)) * feet) |->
        FOOT_TEMPLATES(foot)[((j - 1) % Len(FOOT_TEMPLATES(foot))) + 1]]

\* the counts with one syllable more or less allowed for every foot
allowed_syllable_counts_for_meter_loose(foot, feet) ==
    {Len(FOOT_TEMPLATES(foot)) * feet + d : d \in
        {e \in {0 - 1, 0, 1} : Len(FOOT_TEMPLATES(foot)) * feet + e > 0}}

\* _allowed_syllable_counts_for_meter
allowed_syllable_counts_for_meter(foot, feet) ==
    {Len(FOOT_TEMPLATES(foot)) * feet + d : d \in
        {e \in METER_LENGTH_DELTAS(foot) : Len(FOOT_TEMPLATES(foot)) * feet + e > 0}}

\* every meter a candidate, whatever the line's length
candidate_meters_for_syllables_any_length(n) ==
    [k \in 1..24 |-> <<Feet[((k - 1) \div 6) + 1], ((k - 1) % 6) + 1>>]

\* _candidate_meters_for_syllables: in FOOT_TEMPLATES order, feet ascending
candidate_meters_for_syllables(n) ==
    LET all == [k \in 1..24 |-> <<Feet[((k - 1) \div 6) + 1], ((k - 1) % 6) + 1>>]
    IN  SelectSeq(all, LAMBDA c : n \in allowed_syllable_counts_for_meter(c[1], c[2]))

(***************************************************************************)
(* meter_engine.py: scoring of a fixed stress pattern.                     *)
(***************************************************************************)
\* 1 - cost/normalizer, floored at 0
ScoreOf(cost, normalizer) ==
    IF cost >= 100 * normalizer THEN 0
    ELSE UNIT - cost * (UNIT \div (100 * normalizer))

RECURSIVE MismatchSum(_, _, _, _)
MismatchSum(a, b, foot, idx) ==
    IF idx > Min(Len(a), Len(b)) THEN 0
    ELSE (IF a[idx] = b[idx] THEN 0
          ELSE IF idx = 1 /\ foot \in {"iambic", "trochaic"}
               THEN BINARY_FIRST_POS_DISCOUNT ELSE 100)
         + MismatchSum(a, b, foot, idx + 1)

pattern_distance(a, b, foot) ==
    LET len_diff == IF Len(a) >= Len(b) THEN Len(a) - Len(b) ELSE Len(b) - Len(a)
    IN  IF a = << >> /\ b = << >> THEN 0
        ELSE MismatchSum(a, b, foot, 1)
             + (IF len_diff = 1 /\ Len(a) > Len(b) /\ a[Len(a)] = "U"
                THEN FEMININE_ENDING_COST
                ELSE IF len_diff > 0 THEN len_diff * LENGTH_MISMATCH_COST ELSE 0)

\* _position_mismatch_extra, by 0-based template index
position_mismatch_extra(foot, template_idx) ==
    IF foot \notin {"iambic", "trochaic"} THEN 0
    ELSE IF foot = "iambic"
         THEN (IF template_idx \div 2 = 0 THEN IAMBIC_FIRST_FOOT_PENALTY
               ELSE IF template_idx % 2 = 0 THEN IAMBIC_SPONDEE_PENALTY
               ELSE IAMBIC_WEAK_STRONG_PENALTY)
         ELSE (IF template_idx \div 2 = 0 THEN TROCHAIC_FIRST_FOOT_PENALTY
               ELSE IF template_idx % 2 = 0 THEN TROCHAIC_SPONDEE_PENALTY
               ELSE TROCHAIC_WEAK_STRONG_PENALTY)

RECURSIVE FootPenaltySum(_, _, _, _)
FootPenaltySum(pattern, foot, n, i) ==
    IF i >= n THEN 0
    ELSE (IF pattern[i + 1] = FOOT_TEMPLATES(foot)[(i % 2) + 1] THEN 0
          ELSE position_mismatch_extra(foot, i))
         + FootPenaltySum(pattern, foot, n, i + 1)

foot_position_penalty(pattern, foot, feet) ==
    IF pattern = << >> \/ foot \notin {"iambic", "trochaic"} THEN 0
    ELSE FootPenaltySum(pattern, foot,
                        Min(Len(pattern), Len(FOOT_TEMPLATES(foot)) * feet), 0)

apply_meter_length_priors(score, foot, feet, pattern_len) ==
    LET a == IF 9 <= pattern_len /\ pattern_len <= 11
             THEN (IF foot = "trochaic" /\ feet = 5 THEN Pct(TROCHAIC_PENTAMETER_BONUS)
                   ELSE IF foot \in {"anapestic", "dactylic"}
                        THEN 0 - Pct(TERNARY_METER_PENALTY) ELSE 0)
                  + (IF foot = "iambic" /\ feet = 5 /\ pattern_len >= 10
                     THEN Pct(IAMBIC_PENTAMETER_BONUS) ELSE 0)
             ELSE 0
        b == IF 12 <= pattern_len /\ pattern_len <= 13
             THEN (IF foot = "iambic" /\ feet = 6 THEN Pct(IAMBIC_HEXAMETER_BONUS)
                   ELSE IF foot \in {"anapestic", "dactylic"}
                        THEN 0 - Pct(TERNARY_METER_PENALTY) ELSE 0)
             ELSE 0
    IN  Clamp01(score + a + b)

score_pattern_for_meter(pattern, foot, feet) ==
    IF pattern = << >> THEN 0
    ELSE LET template == template_for_meter(foot, feet)
             dist == pattern_distance(pattern, template, foot)
                     + foot_position_penalty(pattern, foot, feet)
             normalizer == Max(Max(Len(pattern), Len(template)), 1)
         IN  Clamp01(apply_meter_length_priors(
                        Max(0, ScoreOf(dist, normalizer)), foot, feet, Len(pattern)))

(***************************************************************************)
(* meter_engine.py: stress options and the Viterbi aligner.                *)
(***************************************************************************)
Opt(s, c) == [stress |-> s, cost |-> c]

\* _options_for_syllable; cls is the word's membership: "fn" for
\* UNSTRESSED_MONOSYLLABLES, "strong" for STRESSED_MONOSYLLABLES, else "other"
options_for_syllable(cls, is_monosyllable, lexical_stressed) ==
    IF is_monosyllable /\ cls = "fn"
    THEN <<Opt("U", 0), Opt("S", FUNCTION_TO_STRONG_FLIP_COST)>>
    ELSE IF is_monosyllable /\ cls = "strong"
    THEN <<Opt("S", 0), Opt("U", STRONG_TO_WEAK_FLIP_COST)>>
    ELSE LET flip == IF is_monosyllable THEN MONO_FLIP_COST ELSE POLY_FLIP_COST
         IN  IF lexical_stressed THEN <<Opt("S", 0), Opt("U", flip)>>
             ELSE <<Opt("U", 0), Opt("S", flip)>>

\* min(options, key=(cost, symbol))[0]
DefaultStress(options) ==
    LET best == CHOOSE o \in {options[k] : k \in 1..Len(options)} :
                  \A q \in {options[k] : k \in 1..Len(options)} :
                     \/ o.cost < q.cost
                     \/ (o.cost = q.cost /\ (o.stress = q.stress \/ o.stress = "S"))
    IN  best.stress

OptionCost(options, s, dflt) ==
    IF \E k \in 1..Len(options) : options[k].stress = s
    THEN options[CHOOSE k \in 1..Len(options) : options[k].stress = s].cost
    ELSE dflt

mismatch_cost_at(foot, template_idx) ==
    (IF template_idx = 0 /\ foot \in {"iambic", "trochaic"}
     THEN BINARY_FIRST_POS_DISCOUNT ELSE 100)
    + position_mismatch_extra(foot, template_idx)

DefaultPattern(syllables) == [i \in 1..Len(syllables) |-> syllables[i].default_stress]

\* first of the candidates (in the order the loops relax them) with the least cost
RECURSIVE FirstMin(_, _)
FirstMin(cands, best) ==
    IF cands = << >> THEN best
    ELSE FirstMin(Tail(cands), IF Head(cands).cost < best.cost THEN Head(cands) ELSE best)

\* an Insert at the start for every ternary foot
insert_enabled_ternary_at_start(foot, n, i, j) ==
    IF foot \in {"anapestic", "dactylic"} THEN i = 0 /\ j = 0 ELSE i = n

\* _viterbi_for_meter: where the Insert out of cell (i, j) is relaxed, given
\* allow_insert and j < m
insert_enabled(foot, n, i, j) ==
    IF foot = "anapestic" THEN i = 0 /\ j = 0 ELSE i = n

\* dp[i][j] and the stress string backtracked from it, after the relaxation
\* loops: cell (i,j) is relaxed from (i-1,j-1) by Match (each option in turn),
\* from (i-1,j) by Delete and from (i,j-1) by Insert, in that order, and a
\* later candidate replaces an earlier one only when strictly cheaper.
RECURSIVE ViterbiCell(_, _, _, _, _)
ViterbiCell(syllables, foot, template, i, j) ==
    LET n == Len(syllables)
        m == Len(template)
        allow_insert == n - m < 0
        allow_delete == n - m > 0
        unreached == [cost |-> INF, pat |-> << >>]
        fromM == IF i > 0 /\ j > 0
                 THEN LET src == ViterbiCell(syllables, foot, template, i - 1, j - 1)
                          opts == syllables[i].options
                      IN  IF src.cost >= INF THEN << >>
                          ELSE [k \in 1..Len(opts) |->
                                  [cost |-> src.cost + opts[k].cost
                                            + (IF opts[k].stress = template[j] THEN 0
                                               ELSE mismatch_cost_at(foot, j - 1)),
                                   pat |-> Append(src.pat, opts[k].stress)]]
                 ELSE << >>
        fromD == IF allow_delete /\ foot = "iambic" /\ i > 0 /\ j = m
                 THEN LET src == ViterbiCell(syllables, foot, template, i - 1, j)
                      IN  IF src.cost >= INF THEN << >>
                          ELSE <<[cost |-> src.cost
                                           + OptionCost(syllables[i].options, "U", 0)
                                           + (IF i - 1 = n - 1 THEN FEMININE_ENDING_COST
                                              ELSE LENGTH_MISMATCH_COST),
                                  pat |-> Append(src.pat, "U")]>>
                 ELSE << >>
        fromI == IF allow_insert /\ j > 0 /\ insert_enabled(foot, n, i, j - 1)
                 THEN LET src == ViterbiCell(syllables, foot, template, i, j - 1)
                      IN  IF src.cost >= INF THEN << >>
                          ELSE <<[cost |-> src.cost + LENGTH_MISMATCH_COST,
                                  pat |-> src.pat]>>
                 ELSE << >>
    IN  IF i = 0 /\ j = 0 THEN [cost |-> 0, pat |-> << >>]
        ELSE FirstMin(fromM \o fromD \o fromI, unreached)

\* the fallback pattern returned whatever the path found
viterbi_for_meter_default_stress(syllables, foot, feet) ==
    LET template == template_for_meter(foot, feet)
        final == ViterbiCell(syllables, foot, template, Len(syllables), Len(template))
    IN  IF Len(syllables) - Len(template) \notin {0 - 1, 0, 1} \/ final.cost >= INF
        THEN [pat |-> DefaultPattern(syllables), cost |-> INF]
        ELSE [pat |-> DefaultPattern(syllables), cost |-> final.cost]

\* _viterbi_for_meter: <<pattern, cost>>
viterbi_for_meter(syllables, foot, feet) ==
    LET n == Len(syllables)
        template == template_for_meter(foot, feet)
        m == Len(template)
        final == ViterbiCell(syllables, foot, template, n, m)
    IN  IF n - m \notin {0 - 1, 0, 1} THEN [pat |-> DefaultPattern(syllables), cost |-> INF]
        ELSE IF final.cost >= INF THEN [pat |-> DefaultPattern(syllables), cost |-> INF]
        ELSE IF Len(final.pat) # n THEN [pat |-> DefaultPattern(syllables), cost |-> final.cost]
        ELSE [pat |-> final.pat, cost |-> final.cost]


(***************************************************************************)
(* meter_engine.py: ranking of the candidate meters of an ambiguous line.  *)
(***************************************************************************)
\* a JSON value as far as isinstance tells: a number, or something else
Num(x) == [t |-> "num", v |-> x]
NotNumber == [t |-> "other"]

\* a poem-level context: None, or [dominant_meter, dominant_strength]
NoContext == [given |-> FALSE]
Context(meter, strength) ==
    [given |-> TRUE, dominant_meter |-> meter, dominant_strength |-> strength]

\* a coercion that takes the strength as given when it is a number
coerce_context_unclamped(context) ==
    IF ~context.given THEN [meter |-> << >>, strength |-> 0]
    ELSE LET strength == IF context.dominant_strength.t # "num" THEN 0
                         ELSE Max(0, context.dominant_strength.v)
         IN  IF context.dominant_meter = << >> THEN [meter |-> << >>, strength |-> 0]
             ELSE IF parse_meter_name(context.dominant_meter) = << >>
                  THEN [meter |-> << >>, strength |-> 0]
             ELSE [meter |-> context.dominant_meter, strength |-> strength]

\* _coerce_context: <<meter, strength>>
coerce_context(context) ==
    IF ~context.given THEN [meter |-> << >>, strength |-> 0]
    ELSE LET strength == IF context.dominant_strength.t # "num" THEN 0
                         ELSE Clamp01(context.dominant_strength.v)
         IN  IF context.dominant_meter = << >> THEN [meter |-> << >>, strength |-> 0]
             ELSE IF parse_meter_name(context.dominant_meter) = << >>
                  THEN [meter |-> << >>, strength |-> 0]
             ELSE [meter |-> context.dominant_meter, strength |-> strength]

\* list.sort(key=adjusted_score, reverse=True): stable, descending
RECURSIVE InsertByScore(_, _)
InsertByScore(sorted, p) ==
    IF sorted = << >> THEN <<p>>
    ELSE IF Head(sorted).adjusted_score >= p.adjusted_score
         THEN <<Head(sorted)>> \o InsertByScore(Tail(sorted), p)
         ELSE <<p>> \o sorted

RECURSIVE SortByScore(_, _)
SortByScore(paths, acc) ==
    IF paths = << >> THEN acc
    ELSE SortByScore(Tail(paths), InsertByScore(acc, Head(paths)))

\* one _MeterPath per candidate, in candidate order
meter_path(syllables, foot, feet, ctx) ==
    LET v == viterbi_for_meter(syllables, foot, feet)
        template == template_for_meter(foot, feet)
        normalizer == Max(Max(Len(v.pat), Len(template)), 1)
        viterbi_score == apply_meter_length_priors(
                            Max(0, ScoreOf(v.cost, normalizer)), foot, feet, Len(v.pat))
        lexical_score == score_pattern_for_meter(DefaultPattern(syllables), foot, feet)
        base_score == (viterbi_score \div 2) + (lexical_score \div 2)
        context_bonus == IF MeterName(foot, feet) = ctx.meter
                         THEN CONTEXT_PRIOR_MAX_BONUS * (ctx.strength \div 100) ELSE 0
    IN  [foot_name |-> foot, feet |-> feet, base_score |-> base_score,
         adjusted_score |-> Clamp01(base_score + context_bonus),
         cost |-> v.cost, pattern |-> v.pat, context_bonus |-> context_bonus]

ScoreMax(paths, skip_foot, skip_feet) ==
    LET S == {paths[k].adjusted_score : k \in
                {q \in 1..Len(paths) :
                    ~(paths[q].foot_name = skip_foot /\ paths[q].feet = skip_feet)}}
    IN  IF S = {} THEN 0 ELSE Max(0, CHOOSE x \in S : \A y \in S : y <= x)

\* a tie-break that prefers the iambic target however far behind it is
iambic_bias_any_distance(meter_paths, n_syllables) ==
    LET target == IF 10 <= n_syllables /\ n_syllables <= 11 THEN 5
                  ELSE IF 12 <= n_syllables /\ n_syllables <= 13 THEN 6 ELSE 0
        hits == {k \in 1..Len(meter_paths) :
                    meter_paths[k].foot_name = "iambic" /\ meter_paths[k].feet = target}
    IN  IF target = 0 \/ hits = {} THEN meter_paths[1]
        ELSE meter_paths[CHOOSE k \in hits : \A q \in hits : k <= q]

\* the iambic tie-break: the first ranked (iambic, target), if it is not best
\* and is within IAMBIC_BIAS_THRESHOLD of best
iambic_bias(meter_paths, n_syllables) ==
    LET best == meter_paths[1]
        target == IF 10 <= n_syllables /\ n_syllables <= 11 THEN 5
                  ELSE IF 12 <= n_syllables /\ n_syllables <= 13 THEN 6 ELSE 0
        hits == {k \in 1..Len(meter_paths) :
                    meter_paths[k].foot_name = "iambic" /\ meter_paths[k].feet = target}
    IN  IF target = 0 \/ hits = {} THEN best
        ELSE LET candidate == meter_paths[CHOOSE k \in hits : \A q \in hits : k <= q]
             IN  IF /\ best # candidate
                    /\ candidate.adjusted_score
                         >= best.adjusted_score - Pct(IAMBIC_BIAS_THRESHOLD)
                 THEN candidate ELSE best

\* a verdict whose margin is the plain difference
ranked_meter_plain_margin(meter_paths, syllables, best) ==
    [meter_name |-> MeterName(best.foot_name, best.feet),
     score |-> best.adjusted_score,
     margin |-> best.adjusted_score - ScoreMax(meter_paths, best.foot_name, best.feet),
     context_bonus |-> best.context_bonus,
     pattern |-> best.pattern]

\* _best_meter_for_ambiguous_syllables, from the sort of meter_paths on
ranked_meter(meter_paths, syllables, best) ==
    [meter_name |-> MeterName(best.foot_name, best.feet),
     score |-> best.adjusted_score,
     margin |-> Max(0, best.adjusted_score
                         - ScoreMax(meter_paths, best.foot_name, best.feet)),
     context_bonus |-> best.context_bonus,
     pattern |-> best.pattern]

rank_meter_paths(all, syllables) ==
    IF all = << >>
    THEN [meter_name |-> << >>, score |-> 0, margin |-> 0, context_bonus |-> 0,
          pattern |-> DefaultPattern(syllables)]
    ELSE ranked_meter(SortByScore(all, << >>), syllables,
                      iambic_bias(SortByScore(all, << >>), Len(syllables)))

\* _best_meter_for_ambiguous_syllables
best_meter_for_ambiguous_syllables(syllables, context) ==
    LET ctx == coerce_context(context)
        cands == candidate_meters_for_syllables(Len(syllables))
    IN  IF syllables = << >>
        THEN [meter_name |-> << >>, score |-> 0, margin |-> 0, context_bonus |-> 0,
              pattern |-> << >>]
        ELSE rank_meter_paths(
                SelectSeq([k \in 1..Len(cands) |->
                              meter_path(syllables, cands[k][1], cands[k][2], ctx)],
                          LAMBDA p : p.pattern # << >>),
                syllables)


(***************************************************************************)
(* meter_engine.py: analyze_line.                                          *)
(*                                                                         *)
(* The line reaches analyze_line as what two tokenizers make of it: the    *)
(* number of TOKEN_RE matches (ntokens) and the prosodic oracle's word     *)
(* tokens, each with its class and the lexical stress flag of each of its  *)
(* syllables (a word token without syllables is punctuation).              *)
(***************************************************************************)
NoAnalysis == [ok |-> FALSE]

\* the _SyllableUnit list built by the loop over pline.wordtokens; k counts the
\* words processed so far (token_cursor stops advancing at ntokens)
RECURSIVE SyllableUnits(_, _, _)
SyllableUnits(words, ntokens, k) ==
    IF words = << >> THEN << >>
    ELSE LET w == Head(words)
             token_index == Min(k, Max(0, ntokens - 1))
             options(i) == options_for_syllable(w.cls, Len(w.syls) = 1, w.syls[i])
         IN  [i \in 1..Len(w.syls) |->
                 [token_index |-> token_index,
                  options |-> options(i),
                  default_stress |-> DefaultStress(options(i))]]
             \o SyllableUnits(Tail(words), ntokens, k + 1)

\* the aligner's pattern put out as it is
output_pattern_as_aligned(syllables, resolved_pattern, context_bonus) == resolved_pattern

\* the flips the aligner chose, reverted to the lexical default when costly
output_pattern(syllables, resolved_pattern, context_bonus) ==
    [idx \in 1..Len(syllables) |->
        LET unit == syllables[idx]
            chosen == resolved_pattern[idx]
        IN  IF /\ chosen # unit.default_stress
               /\ OptionCost(unit.options, chosen, POLY_FLIP_COST) >= 100
               /\ context_bonus < Pct(8)
            THEN unit.default_stress ELSE chosen]

\* token_patterns_resolved[t], t 0-based: the output symbols of token t's syllables
RECURSIVE TokenPattern(_, _, _, _)
TokenPattern(syllables, outp, t, idx) ==
    IF idx > Len(syllables) THEN << >>
    ELSE (IF syllables[idx].token_index = t THEN <<outp[idx]>> ELSE << >>)
         \o TokenPattern(syllables, outp, t, idx + 1)

\* round(x / 2), Python's round-half-to-even
RoundHalf(x) ==
    IF x % 2 = 0 THEN x \div 2
    ELSE IF (x \div 2) % 2 = 0 THEN x \div 2 ELSE (x \div 2) + 1

\* analyze_line, from the call of _best_meter_for_ambiguous_syllables on
line_analysis(line, line_no, syllables, n_token_patterns, best) ==
    LET resolved_pattern == IF Len(best.pattern) # Len(syllables)
                            THEN DefaultPattern(syllables) ELSE best.pattern
        outp == output_pattern(syllables, resolved_pattern, best.context_bonus)
        token_patterns_out ==
            [t \in 1..n_token_patterns |->
                LET pat == TokenPattern(syllables, outp, t - 1, 1)
                IN  IF pat = << >> THEN <<"U">> ELSE pat]
        parsed_name == parse_meter_name(best.meter_name)
    IN  [ok |-> TRUE,
         line_no |-> line_no,
         ntokens |-> line.ntokens,
         stress_pattern |-> Flatten(token_patterns_out),
         meter_name |-> best.meter_name,
         feet_count |-> IF parsed_name # << >> THEN parsed_name[2]
                        ELSE Max(1, RoundHalf(SumLen(token_patterns_out))),
         confidence |-> Clamp01(best.score),
         margin |-> best.margin,
         context_bonus |-> best.context_bonus,
         token_patterns |-> token_patterns_out,
         n_syllable_positions |-> Len(syllables)]

\* analyze_line, once the loop over pline.wordtokens has built the syllables;
\* n_token_patterns: one token_patterns entry per processed word
analyze_syllables(line, line_no, context, syllables, n_token_patterns) ==
    IF line.ntokens = 0 \/ line.words = << >> \/ syllables = << >>
    THEN NoAnalysis
    ELSE line_analysis(line, line_no, syllables, n_token_patterns,
                       best_meter_for_ambiguous_syllables(syllables, context))

analyze_line(line, line_no, context) ==
    analyze_syllables(line, line_no, context,
        SyllableUnits(SelectSeq(line.words, LAMBDA w : w.syls # << >>), line.ntokens, 0),
        Len(SelectSeq(line.words, LAMBDA w : w.syls # << >>)))


(***************************************************************************)
(* metermeter/llm_refiner.py: validation of one response entry.            *)
(*                                                                         *)
(* JSON values carry their Python type: Num(v), Str(v), List(v), Null (a   *)
(* missing key or null) and Other (a truthy value of any other type). A    *)
(* meter-name string holds its words, a stress string its characters.      *)
(***************************************************************************)
Str(v) == [t |-> "str", v |-> v, ws |-> FALSE]
\* a non-empty string of whitespace only
BlankStr == [t |-> "str", v |-> << >>, ws |-> TRUE]
List(v) == [t |-> "list", v |-> v]
Null == [t |-> "null"]
Other == [t |-> "other"]

\* Python truthiness, as "x or y" reads it
Truthy(x) ==
    CASE x.t = "num" -> x.v # 0
      [] x.t = "str" -> x.v # << >> \/ x.ws
      [] x.t = "list" -> x.v # << >>
      [] x.t = "null" -> FALSE
      [] OTHER -> TRUE
Or(x, y) == IF Truthy(x) THEN x ELSE y

NoRefinement == [ok |-> FALSE]

Upper(ch) == IF ch = "u" THEN "U" ELSE IF ch = "s" THEN "S" ELSE ch
UpperAll(p) == [i \in 1..Len(p) |-> Upper(p[i])]

RECURSIVE StripLeft(_)
StripLeft(p) == IF p # << >> /\ Head(p) = " " THEN StripLeft(Tail(p)) ELSE p
RECURSIVE StripRight(_)
StripRight(p) ==
    IF p # << >> /\ p[Len(p)] = " " THEN StripRight(SubSeq(p, 1, Len(p) - 1)) ELSE p
Strip(p) == StripRight(StripLeft(p))

ReplaceWord(w) ==
    CASE w = "iambs" -> "iambic"
      [] w = "trochees" -> "trochaic"
      [] w = "anapests" -> "anapestic"
      [] w = "dactyls" -> "dactylic"
      [] OTHER -> w

FirstIn(words, S) ==
    IF \E k \in 1..Len(words) : words[k] \in S
    THEN words[CHOOSE k \in 1..Len(words) :
                  words[k] \in S /\ \A q \in 1..(k - 1) : words[q] \notin S]
    ELSE ""

\* "<d>-foot", "<d> foot" and "<d>foot" with d in 1..6, as one word
FootCountWords == {"1-foot", "2-foot", "3-foot", "4-foot", "5-foot", "6-foot"}
FootCountOf(w) ==
    CASE w = "1-foot" -> 1 [] w = "2-foot" -> 2 [] w = "3-foot" -> 3
      [] w = "4-foot" -> 4 [] w = "5-foot" -> 5 [] w = "6-foot" -> 6

\* int(round(syllables / unit)), Python's round-half-to-even
RoundDiv(x, unit) ==
    LET q == x \div unit
        r == x % unit
    IN  IF 2 * r < unit THEN q
        ELSE IF 2 * r > unit THEN q + 1
        ELSE IF q % 2 = 0 THEN q ELSE q + 1

\* a name that has a foot and a line name is returned with both as they are
canonical_meter_name_keeping(raw, base) ==
    LET s == [k \in 1..Len(raw) |-> ReplaceWord(raw[k])]
        counted == SumLen(base.token_patterns)
        syllables == IF counted <= 0 THEN 10 ELSE counted
        foot_name == FirstIn(s, FootNames)
        feet_name == FirstIn(s, LineNames)
        foot_word == FirstIn(s, FootCountWords)
        force5 == foot_name = "iambic" /\ 9 <= syllables /\ syllables <= 11
        unit == IF foot_name \in {"anapestic", "dactylic"} THEN 3 ELSE 2
    IN  IF s = << >> THEN << >>
        ELSE IF foot_name = "" THEN s
        ELSE IF feet_name # "" THEN <<foot_name, feet_name>>
        ELSE IF foot_word # ""
             THEN <<foot_name, LINE_NAME_BY_FEET[IF force5 THEN 5 ELSE FootCountOf(foot_word)]>>
        ELSE <<foot_name,
               LINE_NAME_BY_FEET[IF force5 THEN 5
                                 ELSE Max(1, Min(6, RoundDiv(syllables, unit)))]>>

\* LLMRefiner._canonical_meter_name(raw, base)
canonical_meter_name(raw, base) ==
    LET s == [k \in 1..Len(raw) |-> ReplaceWord(raw[k])]
        counted == SumLen(base.token_patterns)
        syllables == IF counted <= 0 THEN 10 ELSE counted
        foot_name == FirstIn(s, FootNames)
        feet_name == FirstIn(s, LineNames)
        foot_word == FirstIn(s, FootCountWords)
        force5 == foot_name = "iambic" /\ 9 <= syllables /\ syllables <= 11
        unit == IF foot_name \in {"anapestic", "dactylic"} THEN 3 ELSE 2
    IN  IF s = << >> THEN << >>
        ELSE IF foot_name = "" THEN s
        ELSE IF feet_name # ""
             THEN <<foot_name, IF force5 THEN "pentameter" ELSE feet_name>>
        ELSE IF foot_word # ""
             THEN <<foot_name, LINE_NAME_BY_FEET[IF force5 THEN 5 ELSE FootCountOf(foot_word)]>>
        ELSE <<foot_name,
               LINE_NAME_BY_FEET[IF force5 THEN 5
                                 ELSE Max(1, Min(6, RoundDiv(syllables, unit)))]>>

\* no repair of a sub-pattern of the wrong length
normalize_token_pattern_strict(raw_pat, expected_len, baseline_pat) ==
    LET p == SelectSeq(UpperAll(Strip(raw_pat)), LAMBDA ch : ch \in {"U", "S"})
    IN  IF expected_len > 0 /\ Len(p) = expected_len THEN p ELSE << >>

\* LLMRefiner._normalize_token_pattern(raw_pat, expected_len, baseline_pat):
\* << >> stands for the empty string
normalize_token_pattern(raw_pat, expected_len, baseline_pat) ==
    LET p == SelectSeq(UpperAll(Strip(raw_pat)), LAMBDA ch : ch \in {"U", "S"})
    IN  IF expected_len <= 0 THEN << >>
        ELSE IF p = << >> THEN << >>
        ELSE IF Len(p) = expected_len THEN p
        ELSE IF baseline_pat # << >> /\ Len(baseline_pat) = expected_len
                /\ IsStress(baseline_pat)
             THEN baseline_pat
        ELSE IF Len(p) = 1
             THEN (IF p = <<"S">> THEN Repeat("U", Max(0, expected_len - 1)) \o <<"S">>
                   ELSE Repeat("U", expected_len))
        ELSE << >>

\* the confidence stored as reported
refined_confidence_unclamped(conf) == conf

\* conf = max(0.0, min(1.0, float(conf)))
refined_confidence(conf) == Clamp01(conf)

\* the token_stress_patterns list truncated or padded to len(base.tokens)
fit_token_patterns(token_patterns, base) ==
    [i \in 1..base.ntokens |->
        IF i <= Len(token_patterns) THEN token_patterns[i]
        ELSE IF i <= Len(base.token_patterns) THEN Str(base.token_patterns[i])
        ELSE Str(<<"U">>)]

\* the body of the loop over results for one entry, once its baseline is
\* found: the LLMRefinement stored in out, or NoRefinement when it is skipped
validate_item(item, base) ==
    LET meter_name == Or(Or(item.meter_name, item.final_meter), Str(<< >>))
        conf == Or(item.confidence, item.meter_confidence)
        token_patterns == Or(Or(item.token_stress_patterns, item.token_patterns),
                             List(<< >>))
        fitted == fit_token_patterns(token_patterns.v, base)
        token_syllables ==
            IF Len(base.token_patterns) # base.ntokens
            THEN [i \in 1..base.ntokens |-> 1]
            ELSE [i \in 1..base.ntokens |-> Len(base.token_patterns[i])]
        baseline_pat(i) ==
            IF i <= Len(base.token_patterns) THEN base.token_patterns[i] ELSE << >>
        norm(i) == IF fitted[i].t # "str" THEN << >>
                   ELSE normalize_token_pattern(fitted[i].v, token_syllables[i],
                                                baseline_pat(i))
    IN  IF meter_name.t # "str" \/ meter_name.v = << >> THEN NoRefinement
        ELSE IF conf.t # "num" THEN NoRefinement
        ELSE IF token_patterns.t # "list" THEN NoRefinement
        ELSE IF \E i \in 1..base.ntokens : norm(i) = << >> THEN NoRefinement
        ELSE [ok |-> TRUE,
              meter_name |-> canonical_meter_name(meter_name.v, base),
              confidence |-> refined_confidence(conf.v),
              token_patterns |-> [i \in 1..base.ntokens |-> norm(i)]]

\* the line a results entry is about: 0 when the entry is skipped before
\* validation (not a dict, no usable line_no, or no such baseline)
item_line(item, line_nos) ==
    IF ~item.isdict THEN 0
    ELSE IF item.line_no.t \notin {"num", "digits"} THEN 0
    ELSE IF item.line_no.v \notin line_nos THEN 0
    ELSE item.line_no.v

\* out after the loop over results: the last accepted entry of each line
RECURSIVE validate_results(_, _, _)
validate_results(results, baselines, acc) ==
    IF results = << >> THEN acc
    ELSE LET item == Head(results)
             line_no == item_line(item, DOMAIN baselines)
             r == IF line_no = 0 THEN NoRefinement
                  ELSE validate_item(item, baselines[line_no])
         IN  validate_results(Tail(results), baselines,
                              IF r.ok THEN [acc EXCEPT ![line_no] = r] ELSE acc)

(***************************************************************************)
(* src/llm_refiner.py: the Sublime refiner's response validator.           *)
(***************************************************************************)
\* _normalize_token_patterns(token_patterns, token_count): << >> for []
normalize_token_patterns(token_patterns, token_count) ==
    IF token_patterns.t # "list" \/ token_patterns.v = << >> THEN << >>
    ELSE LET items == token_patterns.v
             value(i) == UpperAll(Strip(items[i].v))
         IN  IF \E i \in 1..Len(items) :
                    \/ items[i].t # "str"
                    \/ value(i) = << >>
                    \/ ~IsStress(value(i))
             THEN << >>
             ELSE IF token_count > 0 /\ Len(items) # token_count THEN << >>
             ELSE [i \in 1..Len(items) |-> value(i)]

RECURSIVE SplitWidths(_, _)
SplitWidths(stress_pattern, widths) ==
    IF widths = << >> THEN << >>
    ELSE <<SubSeq(stress_pattern, 1, Head(widths))>>
         \o SplitWidths(SubSeq(stress_pattern, Head(widths) + 1, Len(stress_pattern)),
                        Tail(widths))

\* _split_stress_by_baseline(stress_pattern, baseline_token_patterns)
split_stress_by_baseline(stress_pattern, baseline_token_patterns) ==
    IF baseline_token_patterns = << >> THEN << >>
    ELSE IF \E i \in 1..Len(baseline_token_patterns) : baseline_token_patterns[i] = << >>
         THEN << >>
    ELSE IF SumLen(baseline_token_patterns) # Len(stress_pattern) THEN << >>
    ELSE SplitWidths(stress_pattern,
                     [i \in 1..Len(baseline_token_patterns) |->
                        Len(baseline_token_patterns[i])])

\* _parse_response from the extracted payload on: NoRefinement for None
parse_response(content, baseline) ==
    LET meter == content.final_meter
        confidence == content.meter_confidence
        stress == content.final_stress_pattern
        normalized == normalize_token_patterns(content.token_stress_patterns,
                                               baseline.ntokens)
        stripped == UpperAll(Strip(stress.v))
        normalized_stress == IF normalized # << >> THEN Flatten(normalized) ELSE stripped
    IN  IF ~content.isdict THEN NoRefinement
        ELSE IF meter.t # "str" \/ ~IsCanonicalName(meter.v) THEN NoRefinement
        ELSE IF confidence.t # "num" THEN NoRefinement
        ELSE IF content.analysis_hint.t # "str" THEN NoRefinement
        ELSE IF normalized = << >>
                /\ (stress.t # "str" \/ stripped = << >> \/ ~IsStress(stripped))
             THEN NoRefinement
        ELSE IF Len(normalized_stress) < 1 \/ Len(normalized_stress) > 80
             THEN NoRefinement
        ELSE [ok |-> TRUE,
              stress_pattern |-> normalized_stress,
              meter_name |-> meter.v,
              confidence |-> Clamp01(confidence.v),
              token_patterns |->
                 IF normalized # << >> THEN normalized
                 ELSE split_stress_by_baseline(normalized_stress,
                                               baseline.token_patterns)]

(***************************************************************************)
(* meter_engine.py: the best meter of a fixed stress pattern.              *)
(***************************************************************************)
RECURSIVE InsertDesc(_, _)
InsertDesc(sorted, c) ==
    IF sorted = << >> THEN <<c>>
    ELSE IF Head(sorted).score >= c.score
         THEN <<Head(sorted)>> \o InsertDesc(Tail(sorted), c)
         ELSE <<c>> \o sorted

RECURSIVE SortDesc(_, _)
\* list.sort(key=score, reverse=True): stable
SortDesc(cands, acc) ==
    IF cands = << >> THEN acc
    ELSE SortDesc(Tail(cands), InsertDesc(acc, Head(cands)))

\* _meter_candidates(pattern)
meter_candidates(pattern) ==
    LET meters == candidate_meters_for_syllables(Len(pattern))
        cand(k) ==
            LET foot == meters[k][1]
                feet == meters[k][2]
                template == template_for_meter(foot, feet)
            IN  [foot_name |-> foot, feet |-> feet,
                 score |-> Max(0, ScoreOf(pattern_distance(pattern, template, foot),
                                          Max(Max(Len(pattern), Len(template)), 1)))]
    IN  IF pattern = << >> THEN << >>
        ELSE SortDesc([k \in 1..Len(meters) |-> cand(k)], << >>)

\* "".join(ch for ch in stress_pattern.upper() if ch in {"U", "S"})
stress_symbols(stress_pattern) ==
    SelectSeq(UpperAll(stress_pattern), LAMBDA ch : ch \in {"U", "S"})

NoScore == [ok |-> FALSE]

\* score_stress_pattern_for_meter(stress_pattern, meter_name): NoScore for None
score_stress_pattern_for_meter(stress_pattern, meter_name) ==
    LET parsed_name == parse_meter_name(meter_name)
        pattern == stress_symbols(stress_pattern)
    IN  IF parsed_name = << >> THEN NoScore
        ELSE IF pattern = << >> THEN NoScore
        ELSE [ok |-> TRUE,
              score |-> score_pattern_for_meter(pattern, parsed_name[1], parsed_name[2])]

\* the largest score of all, the best meter's own included
second_score_of_including_best(rescored, best_name, best_feet) ==
    LET S == {rescored[k].score : k \in 1..Len(rescored)}
    IN  IF S = {} THEN 0 ELSE Max(0, CHOOSE x \in S : \A y \in S : y <= x)

\* the largest score among the others, floored at 0
second_score_of(rescored, best_name, best_feet) ==
    LET S == {rescored[k].score : k \in
                {q \in 1..Len(rescored) :
                    ~(rescored[q].foot_name = best_name /\ rescored[q].feet = best_feet)}}
    IN  IF S = {} THEN 0 ELSE Max(0, CHOOSE x \in S : \A y \in S : y <= x)

\* best_meter_for_stress_pattern: the candidates rescored by
\* _score_pattern_for_meter and sorted again
rescored_candidates(pattern, candidates) ==
    SortDesc([k \in 1..Len(candidates) |->
                [candidates[k] EXCEPT !.score =
                    score_pattern_for_meter(pattern,
                        candidates[k].foot_name, candidates[k].feet)]],
             << >>)

\* best_meter_for_stress_pattern(stress_pattern): name, score and margin
best_meter_for_stress_pattern(stress_pattern) ==
    LET pattern == stress_symbols(stress_pattern)
        candidates == meter_candidates(pattern)
        rescored == rescored_candidates(pattern, candidates)
        first == rescored[1]
        target == IF 10 <= Len(pattern) /\ Len(pattern) <= 11 THEN 5
                  ELSE IF 12 <= Len(pattern) /\ Len(pattern) <= 13 THEN 6 ELSE 0
        iambic_score == score_pattern_for_meter(pattern, "iambic", target)
        biased == /\ target # 0
                  /\ (first.foot_name # "iambic" \/ first.feet # target)
                  /\ iambic_score >= first.score - Pct(IAMBIC_BIAS_THRESHOLD)
        best == IF biased
                THEN [foot_name |-> "iambic", feet |-> target, score |-> iambic_score]
                ELSE first
    IN  IF pattern = << >> \/ candidates = << >>
        THEN [meter_name |-> << >>, score |-> 0, margin |-> 0]
        ELSE [meter_name |-> MeterName(best.foot_name, best.feet),
              score |-> best.score,
              margin |-> Max(0, best.score
                                 - second_score_of(rescored, best.foot_name, best.feet))]

(***************************************************************************)
(* metermeter_cli.py: override arbitration.                                *)
(***************************************************************************)
RESCORE_MIN_SCORE == 72
RESCORE_MIN_MARGIN == 10
IAMBIC_GUARD_MIN_SCORE == 68
IAMBIC_GUARD_MIN_MARGIN == 3
IAMBIC_GUARD_MAX_CONF == 75
BASELINE_GUARD_CONF_MIN == 75
BASELINE_GUARD_LLM_MAX_CONF == 85
DOMINANT_RATIO_MIN == 75
DOMINANT_MIN_LINES == 6
DOMINANT_LOW_CONF == 65
DOMINANT_SCORE_DELTA == 8

IambicPentameter == <<"iambic", "pentameter">>

NoOverride == [hit |-> FALSE]
Override(meter_name, conf, reason) ==
    [hit |-> TRUE, meter_name |-> meter_name, conf |-> conf, reason |-> reason]

\* the rule with both thresholds exclusive
try_pattern_rescore_exclusive(c) ==
    IF /\ c.pattern_best_meter # << >>
       /\ c.pattern_best_meter # c.meter_name
       /\ c.pattern_best_score > Pct(RESCORE_MIN_SCORE)
       /\ c.pattern_best_margin > Pct(RESCORE_MIN_MARGIN)
    THEN Override(c.pattern_best_meter, Min(c.conf, c.pattern_best_score),
                  "pattern_rescore")
    ELSE NoOverride

\* _try_pattern_rescore
try_pattern_rescore(c) ==
    IF /\ c.pattern_best_meter # << >>
       /\ c.pattern_best_meter # c.meter_name
       /\ c.pattern_best_score >= Pct(RESCORE_MIN_SCORE)
       /\ c.pattern_best_margin >= Pct(RESCORE_MIN_MARGIN)
    THEN Override(c.pattern_best_meter, Min(c.conf, c.pattern_best_score),
                  "pattern_rescore")
    ELSE NoOverride

\* the guard at any line length
try_iambic_guard_any_length(c) ==
    IF /\ c.pattern_best_meter = IambicPentameter
       /\ c.meter_name # c.pattern_best_meter
       /\ c.pattern_best_score >= Pct(IAMBIC_GUARD_MIN_SCORE)
       /\ c.pattern_best_margin >= Pct(IAMBIC_GUARD_MIN_MARGIN)
       /\ c.conf <= Pct(IAMBIC_GUARD_MAX_CONF)
    THEN Override(c.pattern_best_meter, Min(c.conf, c.pattern_best_score),
                  "iambic_guard")
    ELSE NoOverride

\* _try_iambic_guard
try_iambic_guard(c) ==
    IF /\ c.pattern_best_meter = IambicPentameter
       /\ c.meter_name # c.pattern_best_meter
       /\ 9 <= Len(c.stress_pattern) /\ Len(c.stress_pattern) <= 11
       /\ c.pattern_best_score >= Pct(IAMBIC_GUARD_MIN_SCORE)
       /\ c.pattern_best_margin >= Pct(IAMBIC_GUARD_MIN_MARGIN)
       /\ c.conf <= Pct(IAMBIC_GUARD_MAX_CONF)
    THEN Override(c.pattern_best_meter, Min(c.conf, c.pattern_best_score),
                  "iambic_guard")
    ELSE NoOverride

\* the guard reporting the baseline's confidence as it is
try_baseline_guard_uncapped(c) ==
    IF /\ c.baseline_meter = IambicPentameter
       /\ c.meter_name # c.baseline_meter
       /\ 9 <= Len(c.stress_pattern) /\ Len(c.stress_pattern) <= 11
       /\ c.baseline_conf >= Pct(BASELINE_GUARD_CONF_MIN)
       /\ c.conf <= Pct(BASELINE_GUARD_LLM_MAX_CONF)
    THEN Override(c.baseline_meter, c.baseline_conf, "baseline_guard")
    ELSE NoOverride

\* the guard with both confidence limits exclusive
try_baseline_guard_exclusive(c) ==
    IF /\ c.baseline_meter = IambicPentameter
       /\ c.meter_name # c.baseline_meter
       /\ 9 <= Len(c.stress_pattern) /\ Len(c.stress_pattern) <= 11
       /\ c.baseline_conf > Pct(BASELINE_GUARD_CONF_MIN)
       /\ c.conf < Pct(BASELINE_GUARD_LLM_MAX_CONF)
    THEN Override(c.baseline_meter, Min(c.conf, c.baseline_conf), "baseline_guard")
    ELSE NoOverride

\* _try_baseline_guard
try_baseline_guard(c) ==
    IF /\ c.baseline_meter = IambicPentameter
       /\ c.meter_name # c.baseline_meter
       /\ 9 <= Len(c.stress_pattern) /\ Len(c.stress_pattern) <= 11
       /\ c.baseline_conf >= Pct(BASELINE_GUARD_CONF_MIN)
       /\ c.conf <= Pct(BASELINE_GUARD_LLM_MAX_CONF)
    THEN Override(c.baseline_meter, Min(c.conf, c.baseline_conf), "baseline_guard")
    ELSE NoOverride

\* the rule switching to any dominant meter that scores better at all
try_dominant_smoothing_any_gain(c) ==
    LET dom_score == score_stress_pattern_for_meter(c.stress_pattern, c.dominant_meter)
        cur_score == score_stress_pattern_for_meter(c.stress_pattern, c.meter_name)
    IN  IF ~(/\ c.dominant_meter # << >>
             /\ c.dominant_ratio >= Pct(DOMINANT_RATIO_MIN)
             /\ c.dominant_line_count >= DOMINANT_MIN_LINES
             /\ c.meter_name # c.dominant_meter)
        THEN NoOverride
        ELSE IF /\ dom_score.ok
                /\ cur_score.ok
                /\ c.conf <= Pct(DOMINANT_LOW_CONF)
                /\ dom_score.score > cur_score.score
        THEN Override(c.dominant_meter, Min(c.conf, dom_score.score),
                      "dominant_smoothing")
        ELSE NoOverride

\* _try_dominant_smoothing
try_dominant_smoothing(c) ==
    LET dom_score == score_stress_pattern_for_meter(c.stress_pattern, c.dominant_meter)
        cur_score == score_stress_pattern_for_meter(c.stress_pattern, c.meter_name)
    IN  IF ~(/\ c.dominant_meter # << >>
             /\ c.dominant_ratio >= Pct(DOMINANT_RATIO_MIN)
             /\ c.dominant_line_count >= DOMINANT_MIN_LINES
             /\ c.meter_name # c.dominant_meter)
        THEN NoOverride
        ELSE IF /\ dom_score.ok
                /\ cur_score.ok
                /\ c.conf <= Pct(DOMINANT_LOW_CONF)
                /\ dom_score.score >= cur_score.score + Pct(DOMINANT_SCORE_DELTA)
        THEN Override(c.dominant_meter, Min(c.conf, dom_score.score),
                      "dominant_smoothing")
        ELSE NoOverride

\* the guards listed ahead of the rescoring rule
METER_OVERRIDES_guards_first ==
    <<"iambic_guard", "baseline_guard", "pattern_rescore", "dominant_smoothing">>

\* _METER_OVERRIDES, by the reason each function reports
METER_OVERRIDES ==
    <<"pattern_rescore", "iambic_guard", "baseline_guard", "dominant_smoothing">>

\* override_fn(**override_ctx)
apply_override(fn, c) ==
    CASE fn = "pattern_rescore" -> try_pattern_rescore(c)
      [] fn = "iambic_guard" -> try_iambic_guard(c)
      [] fn = "baseline_guard" -> try_baseline_guard(c)
      [] fn = "dominant_smoothing" -> try_dominant_smoothing(c)

RECURSIVE first_override(_, _)
\* for override_fn in _METER_OVERRIDES: ... break
first_override(fns, c) ==
    IF fns = << >> THEN NoOverride
    ELSE LET result == apply_override(Head(fns), c)
         IN  IF result.hit THEN result ELSE first_override(Tail(fns), c)

\* override_ctx of main for refinement r of baseline a under the dominant
\* meter dom
override_ctx(r, a, dom) ==
    LET stress_pattern == Flatten(r.token_patterns)
        pattern_best == best_meter_for_stress_pattern(stress_pattern)
    IN  [meter_name |-> r.meter_name,
         conf |-> r.confidence,
         pattern_best_meter |-> pattern_best.meter_name,
         pattern_best_score |-> pattern_best.score,
         pattern_best_margin |-> pattern_best.margin,
         stress_pattern |-> stress_pattern,
         baseline_meter |-> a.meter_name,
         baseline_conf |-> a.confidence,
         dominant_meter |-> dom.meter,
         dominant_ratio |-> dom.ratio,
         dominant_line_count |-> dom.line_count]

\* the result entry main appends for the line
scan_result(c) ==
    LET result == first_override(METER_OVERRIDES, c)
    IN  [ok |-> TRUE,
         meter_name |-> IF result.hit THEN result.meter_name ELSE c.meter_name,
         meter_name_llm |-> c.meter_name,
         confidence |-> IF result.hit THEN result.conf ELSE c.conf,
         meter_overridden |-> result.hit,
         override_reason |-> IF result.hit THEN result.reason ELSE ""]

(***************************************************************************)
(* Engine scenario: the oracle's delivery for one line, then analyze_line. *)
(***************************************************************************)
Word(cls, syls) == [cls |-> cls, syls |-> syls]

\* the word tokens the oracle may deliver
WordShapes ==
    { Word("fn", <<FALSE>>),                       \* "to", "the"
      Word("strong", <<TRUE>>),                    \* "all", "not"
      Word("other", <<TRUE>>),                     \* "day"
      Word("other", <<TRUE, FALSE>>),              \* "summer"
      Word("other", <<TRUE, FALSE, TRUE, FALSE>>), \* "generation"
      Word("other", <<FALSE, TRUE, FALSE, TRUE, FALSE, FALSE>>) \* "responsibility"
    }

Contexts ==
    { NoContext,
      Context(<<"iambic", "tetrameter">>, Num(UNIT)),
      Context(<<"free", "verse">>, Num(UNIT)) }

OracleLines ==
    [ntokens : 0..MaxWords,
     words : UNION {[1..k -> WordShapes] : k \in 0..MaxWords}]

IdleEngine == oracle = [ntokens |-> 0, words |-> << >>] /\ analysis = NoAnalysis
NoResponse == [kind |-> "none", results |-> << >>]
NoDump == [written |-> FALSE]
IdleRefiner ==
    /\ endpoint = "" /\ batch = << >> /\ resp = NoResponse /\ retry = << >>
    /\ missing = << >> /\ out = << >> /\ calls = 0 /\ last_error = ""
    /\ dump = NoDump /\ raised = None
IdleSublime == payload = [given |-> FALSE] /\ parsed = [ok |-> FALSE]
IdleCli ==
    octx = [given |-> FALSE] /\ scan = [ok |-> FALSE] /\ rule_hits = [ok |-> FALSE]
IdleMain == scanreq = [given |-> FALSE] /\ scanresp = [written |-> FALSE]
IdlePattern == stress_in = << >> /\ verdict = [ok |-> FALSE]
IdleCache ==
    /\ cfg = [given |-> FALSE] /\ cache = << >> /\ cooldown_until = 0
    /\ llm_error = "" /\ lock = 0 /\ now = 0 /\ cleared = 0 /\ threads = << >>
EmptyHeap == [lists |-> << >>, recs |-> << >>]
IdleFrame == heap = EmptyHeap /\ frame = [given |-> FALSE]
IdleSession == session = [given |-> FALSE]
IdleSidecar == sidecar = [given |-> FALSE]
IdleAlign == align = [given |-> FALSE]
IdleRank == rank = [given |-> FALSE]
IdleScanner == scanner = [given |-> FALSE]
IdleCanon == canon = [given |-> FALSE]
IdleFinal == IdleRank /\ IdleScanner /\ IdleCanon
IdleLater == IdleSession /\ IdleSidecar /\ IdleAlign /\ IdleFinal
IdleExtra == IdleFrame /\ IdleLater

EngineInit ==
    /\ pc = "engine"
    /\ oracle \in OracleLines
    /\ analysis = NoAnalysis
    /\ IdleRefiner /\ IdleSublime /\ IdleCli /\ IdleMain /\ IdlePattern /\ IdleCache /\ IdleExtra

\* MeterEngine.analyze_line(line, line_no, context)
AnalyzeLine ==
    /\ pc = "engine"
    /\ \E context \in Contexts :
          analysis' = analyze_line(oracle, 0, context)
    /\ pc' = "analyzed"
    /\ UNCHANGED <<oracle, refinerVars, sublimeVars, cliVars, mainVars, patternVars, cacheVars, extraVars>>

EngineNext == AnalyzeLine
SpecEngine == EngineInit /\ [][EngineNext]_vars

(***************************************************************************)
(* Refiner scenario: LLMRefiner.refine_lines on a batch of baselines that  *)
(* analyze_line produced, against an endpoint that may answer anything.    *)
(***************************************************************************)
\* "to strive to seek" and "summer day"
SampleLines ==
    << [ntokens |-> 4,
        words |-> <<Word("fn", <<FALSE>>), Word("other", <<TRUE>>),
                    Word("fn", <<FALSE>>), Word("other", <<TRUE>>)>>],
       [ntokens |-> 2,
        words |-> <<Word("other", <<TRUE, FALSE>>), Word("other", <<TRUE>>)>>] >>

\* baselines numbered 1..k in request order
Batches ==
    { [i \in DOMAIN sel |-> analyze_line(SampleLines[sel[i]], i, NoContext)] :
        sel \in UNION {[1..k -> 1..Len(SampleLines)] : k \in 0..MaxBatch} }

Invert(p) == [i \in 1..Len(p) |-> IF p[i] = "S" THEN "U" ELSE "S"]
Lower(p) == [i \in 1..Len(p) |-> IF p[i] = "S" THEN "s" ELSE "u"]

\* a well-formed entry for baseline b that disagrees with the baseline
GoodPatterns(b) == [i \in 1..b.ntokens |-> Str(Invert(b.token_patterns[i]))]
GoodItem(b) ==
    [isdict |-> TRUE,
     line_no |-> Num(b.line_no),
     meter_name |-> Str(<<"trochaic", "dimeter">>),
     final_meter |-> Null,
     confidence |-> Num(Pct(90)),
     meter_confidence |-> Null,
     token_stress_patterns |-> List(GoodPatterns(b)),
     token_patterns |-> Null]

RawMeters ==
    { Str(<<"iambs">>), Str(<<"free", "verse">>), Str(<<"dactylic", "2-foot">>),
      Str(<<"pentameter", "anapests">>), BlankStr, Other, Null }
RawPatternLists(b) ==
    LET good == GoodPatterns(b)
        first == good[1].v
    IN  { List([good EXCEPT ![1] = Str(first \o <<"S">>)]),
          List([good EXCEPT ![1] = Str(<<"X">>)]),
          List([good EXCEPT ![1] = Str(<<" ">> \o Lower(first) \o <<".">>)]),
          List([good EXCEPT ![1] = Other]),
          List(SubSeq(good, 1, Len(good) - 1)),
          List(good \o <<Str(<<"S">>)>>),
          List([i \in 1..Len(good) |-> Str(<<"S">>)]),
          Other, Null }

\* every shape of entry for baseline b
AllItems(b) ==
    LET g == GoodItem(b)
    IN  {g}
        \cup {[g EXCEPT !.meter_name = m] : m \in RawMeters}
        \cup {[g EXCEPT !.meter_name = Null, !.final_meter = Str(<<"iambic", "trimeter">>)]}
        \cup {[g EXCEPT !.confidence = c] :
                c \in {Num(9 * UNIT), Num(0 - Pct(50)), Num(0), Other}}
        \cup {[g EXCEPT !.confidence = Num(0), !.meter_confidence = Num(Pct(40))]}
        \cup {[g EXCEPT !.token_stress_patterns = t] : t \in RawPatternLists(b)}
        \cup {[g EXCEPT !.token_stress_patterns = Null,
                        !.token_patterns = List(GoodPatterns(b))]}
        \cup {[g EXCEPT !.line_no = n] :
                n \in {[t |-> "digits", v |-> b.line_no], Num(b.line_no + MaxBatch + 1), Other}}
        \cup {[g EXCEPT !.isdict = FALSE]}

\* an accepted, a repaired, a rejected and an ignored entry for baseline b
FewItems(b) ==
    LET g == GoodItem(b)
    IN  {g,
         [g EXCEPT !.token_stress_patterns = List(<< >>)],
         [g EXCEPT !.token_stress_patterns = List(<<Str(<<"X">>)>>)],
         [g EXCEPT !.isdict = FALSE]}

\* what the endpoint may send as the entry for baseline b: every shape for
\* the first line of a batch request, a few for the other lines and for the
\* individual retries
Items(b, in_batch) == IF in_batch /\ b.line_no = 1 THEN AllItems(b) ELSE FewItems(b)

RECURSIVE ResultLists(_, _, _)
\* one entry or none for each requested line, in request order
ResultLists(baselines, line_nos, in_batch) ==
    IF line_nos = << >> THEN {<< >>}
    ELSE LET rest == ResultLists(baselines, Tail(line_nos), in_batch)
         IN  rest \cup {<<item>> \o r :
                          item \in Items(baselines[Head(line_nos)], in_batch), r \in rest}

ErrorKinds ==
    {"http_error", "url_error", "not_json", "json_not_object", "missing_choices",
     "missing_message", "missing_content", "content_not_json_object",
     "missing_results"}

Responses(baselines, line_nos, in_batch) ==
    {[kind |-> k, results |-> << >>] : k \in ErrorKinds}
    \cup {[kind |-> "results", results |-> r] :
            r \in ResultLists(baselines, line_nos, in_batch)}

NoneAccepted(baselines) == [i \in DOMAIN baselines |-> NoRefinement]
Accepted(o) == {i \in DOMAIN o : o[i].ok}

\* the dump reason of a response body that is not taken down to results
dump_reason(kind) ==
    CASE kind = "not_json" -> "response_not_json"
      [] OTHER -> kind

\* refine_lines up to the retry loop, on the baselines numbered line_nos and
\* the response r: the exception it ends with, whether it assigns last_error
\* and with what, whether it writes the dump file and with what, and out
first_pass(baselines, line_nos, r) ==
    LET requested == {line_nos[i] : i \in 1..Len(line_nos)}
        validated == validate_results(r.results,
                                      [i \in requested |-> baselines[i]],
                                      [i \in requested |-> NoRefinement])
        o == [i \in DOMAIN baselines |->
                IF i \in requested THEN validated[i] ELSE NoRefinement]
        propagate(exc) ==
            [raised |-> exc, sets_error |-> FALSE, last_error |-> "",
             writes_dump |-> FALSE, dump |-> NoDump, out |-> NoneAccepted(baselines)]
        invalid(reason) ==
            [raised |-> "llm_invalid_response", sets_error |-> TRUE,
             last_error |-> "llm_invalid_response",
             writes_dump |-> TRUE,
             dump |-> [written |-> TRUE, reason |-> reason,
                       request |-> requested, raw |-> r],
             out |-> NoneAccepted(baselines)]
    IN  CASE r.kind = "http_error" -> propagate("llm_http_error")
          [] r.kind = "url_error" -> propagate("URLError")
          [] r.kind = "json_not_object" -> propagate("AttributeError")
          [] r.kind = "results" ->
                IF Accepted(o) = {} THEN invalid("results_failed_validation")
                ELSE [raised |-> None, sets_error |-> TRUE, last_error |-> "",
                      writes_dump |-> FALSE, dump |-> NoDump, out |-> o]
          [] OTHER -> invalid(dump_reason(r.kind))

\* the mock:// shortcut
mock_refinement(b) ==
    [ok |-> TRUE, meter_name |-> b.meter_name,
     confidence |-> Clamp01(b.confidence), token_patterns |-> b.token_patterns]

Endpoints == {"mock://", "http://"}

RefinerInit ==
    /\ pc = "refine"
    /\ endpoint \in Endpoints
    /\ batch \in Batches
    /\ resp = NoResponse
    /\ retry = [i \in DOMAIN batch |-> "none"]
    /\ missing = << >>
    /\ out = NoneAccepted(batch)
    /\ calls = 0 /\ last_error = "" /\ dump = NoDump /\ raised = None
    /\ IdleEngine /\ IdleSublime /\ IdleCli /\ IdleMain /\ IdlePattern /\ IdleCache /\ IdleExtra

LineNos(baselines) == [i \in 1..Len(baselines) |-> i]

\* every line of the batch taken as missing
missing_lines_all(baselines, o) == LineNos(baselines)

\* [b for b in baselines if int(b.line_no) not in out]
missing_lines(baselines, o) == SelectSeq(LineNos(baselines), LAMBDA i : ~o[i].ok)

\* refine_lines(baselines) from its entry to its return, its exception, or
\* the first individual retry
RefineLines ==
    /\ pc = "refine"
    /\ IF batch = << >>
       THEN /\ pc' = "done"
            /\ UNCHANGED <<resp, missing, out, calls, last_error, dump, raised>>
       ELSE IF endpoint = "mock://"
       THEN /\ out' = [i \in DOMAIN batch |-> mock_refinement(batch[i])]
            /\ pc' = "done"
            /\ UNCHANGED <<resp, missing, calls, last_error, dump, raised>>
       ELSE \E r \in Responses(batch, LineNos(batch), TRUE) :
            \E f \in {first_pass(batch, LineNos(batch), r)} :
              LET n == Cardinality(Accepted(f.out))
                  retrying == 0 < n /\ n < Len(batch)
              IN  /\ resp' = r
                  /\ calls' = calls + 1
                  /\ raised' = f.raised
                  /\ out' = f.out
                  /\ dump' = IF f.writes_dump THEN f.dump ELSE dump
                  /\ missing' = IF retrying THEN missing_lines(batch, f.out) ELSE << >>
                  /\ last_error' = IF f.sets_error /\ ~retrying THEN f.last_error
                                   ELSE last_error
                  /\ pc' = IF retrying THEN "retrying" ELSE "done"
    /\ UNCHANGED <<endpoint, batch, retry, engineVars, sublimeVars, cliVars, mainVars,
                   patternVars, cacheVars, extraVars>>

\* one iteration of "for b in missing": the recursive refine_lines([b]), the
\* except clause around it and, after the last iteration, the return
RetryLine ==
    /\ pc = "retrying"
    /\ LET line_no == Head(missing)
           last == Tail(missing) = << >>
       IN  \E r \in Responses(batch, <<line_no>>, FALSE) :
            \E single \in {first_pass(batch, <<line_no>>, r)} :
                  /\ calls' = calls + 1
                  /\ retry' = [retry EXCEPT ![line_no] =
                                  IF single.raised = None THEN "accepted"
                                  ELSE single.raised]
                  /\ out' = IF single.raised = None /\ single.out[line_no].ok
                            THEN [out EXCEPT ![line_no] = single.out[line_no]]
                            ELSE out
                  /\ dump' = IF single.writes_dump THEN single.dump ELSE dump
                  /\ last_error' = IF last THEN ""
                                   ELSE IF single.sets_error THEN single.last_error
                                   ELSE last_error
                  /\ missing' = Tail(missing)
                  /\ pc' = IF last THEN "done" ELSE "retrying"
    /\ UNCHANGED <<endpoint, batch, resp, raised, engineVars, sublimeVars, cliVars,
                   mainVars, patternVars, cacheVars, extraVars>>

RefinerNext == RefineLines \/ RetryLine
SpecRefiner == RefinerInit /\ [][RefinerNext]_vars

(***************************************************************************)
(* Sublime scenario: _parse_response on one response for one baseline.     *)
(***************************************************************************)
\* baselines of "to strive to seek" and "summer day": token count and
\* per-token patterns
SublimeBaselines ==
    { [ntokens |-> 4, token_patterns |-> <<<<"U">>, <<"S">>, <<"U">>, <<"S">>>>],
      [ntokens |-> 2, token_patterns |-> <<<<"S", "U">>, <<"S">>>>] }

SublimeMeters ==
    { Str(<<"trochaic", "dimeter">>), Str(<<"alexandrine">>), Str(<<"free", "verse">>),
      Str(<<"iambs">>), Other }
SublimeConfidences == { Num(Pct(90)), Num(9 * UNIT), Num(0 - Pct(50)), Other }
SublimeTokenPatterns(b) ==
    LET good == [i \in 1..b.ntokens |-> Str(Invert(b.token_patterns[i]))]
    IN  { List(good),
          List([good EXCEPT ![1] = Str(good[1].v \o <<"S">>)]),
          List([good EXCEPT ![1] = Str(<<" ">> \o Lower(good[1].v))]),
          List([good EXCEPT ![1] = Str(<<"X">>)]),
          List(SubSeq(good, 1, Len(good) - 1)),
          Null, Other }
SublimeStress(b) ==
    LET flat == Flatten(b.token_patterns)
    IN  { Str(Invert(flat)), Str(<<"U", "S", "U", "S", "U">>), Str(<<"U", "-", "S">>), Null }

SublimeContents(b) ==
    [isdict : {TRUE},
     final_stress_pattern : SublimeStress(b),
     final_meter : SublimeMeters,
     meter_confidence : SublimeConfidences,
     analysis_hint : {Str(<<"hint">>), Null},
     token_stress_patterns : SublimeTokenPatterns(b)]
    \cup {[isdict |-> FALSE]}

SublimeInit ==
    /\ pc = "sublime"
    /\ \E b \in SublimeBaselines :
          payload \in {[given |-> TRUE, baseline |-> b, content |-> c] :
                          c \in SublimeContents(b)}
    /\ parsed = NoRefinement
    /\ IdleEngine /\ IdleRefiner /\ IdleCli /\ IdleMain /\ IdlePattern /\ IdleCache /\ IdleExtra

\* LLMRefiner._parse_response(raw, baseline)
ParseResponse ==
    /\ pc = "sublime"
    /\ parsed' = parse_response(payload.content, payload.baseline)
    /\ pc' = "parsed"
    /\ UNCHANGED <<payload, engineVars, refinerVars, cliVars, mainVars, patternVars,
                   cacheVars, extraVars>>

SublimeNext == ParseResponse
SpecSublime == SublimeInit /\ [][SublimeNext]_vars

(***************************************************************************)
(* CLI scenario: main's arbitration of one refined line.                   *)
(***************************************************************************)
AsPattern(bits) == [i \in 1..Len(bits) |-> IF bits[i] = 1 THEN "S" ELSE "U"]

\* refined stress patterns, one token per syllable
CliPatterns ==
    { AsPattern(<<0, 1, 0, 1, 0, 1, 0, 1, 0, 1>>),
      AsPattern(<<1, 0, 1, 0, 1, 0, 1, 0, 1, 0>>),
      AsPattern(<<0, 1, 0, 1, 0, 1, 0, 1>>),
      AsPattern(<<0, 0, 1, 0, 0, 1, 0, 0, 1>>),
      AsPattern(<<1, 0, 0, 1, 0, 0, 0, 1, 0, 0>>),
      AsPattern(<<0, 1, 0, 1, 0, 1, 0, 1, 0, 1, 0>>) }
CliMeters ==
    { IambicPentameter, <<"trochaic", "pentameter">>, <<"iambic", "tetrameter">>,
      <<"anapestic", "trimeter">>, <<"free", "verse">> }
CliConfidences == { 0, Pct(60), Pct(70), Pct(80), Pct(85), UNIT }
CliBaselines ==
    [meter_name : {IambicPentameter, <<"trochaic", "pentameter">>, << >>},
     confidence : {Pct(50), Pct(80)}]
Dominant(meter, ratio, line_count) ==
    [meter |-> meter, ratio |-> ratio, line_count |-> line_count]
CliDominants ==
    { Dominant(<< >>, 0, 0),
      Dominant(IambicPentameter, Pct(90), 8),
      Dominant(IambicPentameter, Pct(90), 3),
      Dominant(<<"trochaic", "pentameter">>, Pct(80), 6) }

CliInit ==
    /\ pc = "cli"
    /\ octx \in {[given |-> TRUE,
                  ctx |-> override_ctx([meter_name |-> m, confidence |-> c,
                                        token_patterns |-> [i \in 1..Len(pat) |-> <<pat[i]>>]],
                                       a, dom)] :
                    m \in CliMeters, c \in CliConfidences, pat \in CliPatterns,
                    a \in CliBaselines, dom \in CliDominants}
    /\ scan = [ok |-> FALSE]
    /\ rule_hits = [ok |-> FALSE]
    /\ IdleEngine /\ IdleRefiner /\ IdleSublime /\ IdleMain /\ IdlePattern /\ IdleCache /\ IdleExtra

\* the body of main's loop over analyses for one refined line
ScanLine ==
    /\ pc = "cli"
    /\ scan' = scan_result(octx.ctx)
    /\ pc' = "scanned"
    /\ UNCHANGED <<octx, rule_hits, engineVars, refinerVars, sublimeVars, mainVars,
                   patternVars, cacheVars, extraVars>>

CliNext == ScanLine
SpecCli == CliInit /\ [][CliNext]_vars

(***************************************************************************)
(* Rules scenario: each override rule called on its own, with a context    *)
(* the caller chooses, as main's loop and the rules' callers may.          *)
(***************************************************************************)
RuleMeters ==
    { <<"trochaic", "tetrameter">>, <<"trochaic", "pentameter">>, IambicPentameter,
      <<"anapestic", "trimeter">>, << >> }
RuleBestMeters ==
    { IambicPentameter, <<"iambic", "tetrameter">>, <<"trochaic", "tetrameter">>, << >> }
RuleConfidences == { Pct(50), Pct(60), Pct(75), Pct(76), Pct(90) }
RuleScores == { Pct(60), Pct(67), Pct(68), Pct(71), Pct(72), Pct(75), Pct(85) }
RuleMargins == { Pct(2), Pct(3), Pct(5), Pct(9), Pct(10), Pct(15) }
\* alternating syllables, eight to twelve of them
RulePatterns == { [i \in 1..n |-> IF i % 2 = 1 THEN "U" ELSE "S"] : n \in 8..12 }

RuleContexts ==
    { [meter_name |-> m, conf |-> c, pattern_best_meter |-> b,
       pattern_best_score |-> sc, pattern_best_margin |-> mg, stress_pattern |-> pat,
       baseline_meter |-> << >>, baseline_conf |-> 0,
       dominant_meter |-> << >>, dominant_ratio |-> 0, dominant_line_count |-> 0] :
        m \in RuleMeters, c \in RuleConfidences, b \in RuleBestMeters,
        sc \in RuleScores, mg \in RuleMargins, pat \in RulePatterns }

\* contexts for the baseline guard: the engine's verdict before the LLM
BaselineMeters == { IambicPentameter, <<"trochaic", "pentameter">>, << >> }
BaselineConfidences == { Pct(60), Pct(74), Pct(75), Pct(80), Pct(100) }
LLMConfidences == { Pct(50), Pct(70), Pct(85), Pct(86), Pct(90) }

BaselineContexts ==
    { [meter_name |-> m, conf |-> c, pattern_best_meter |-> << >>,
       pattern_best_score |-> 0, pattern_best_margin |-> 0, stress_pattern |-> pat,
       baseline_meter |-> bm, baseline_conf |-> bc,
       dominant_meter |-> << >>, dominant_ratio |-> 0, dominant_line_count |-> 0] :
        m \in { <<"trochaic", "pentameter">>, IambicPentameter,
                <<"anapestic", "trimeter">> },
        c \in LLMConfidences, bm \in BaselineMeters, bc \in BaselineConfidences,
        pat \in RulePatterns }

\* contexts for dominant smoothing; <<"free", "verse">> is a name that
\* _parse_meter_name does not parse, << >> the empty name or pattern
FreeVerse == <<"free", "verse">>
DominantMeters ==
    { IambicPentameter, <<"iambic", "tetrameter">>, <<"trochaic", "pentameter">>,
      FreeVerse, << >> }
DominantRatios == { Pct(60), Pct(74), Pct(75), Pct(85) }
DominantLineCounts == { 3, 5, 6, 12 }
LowConfidences == { Pct(50), Pct(65), Pct(66), Pct(80) }
SmoothingPatterns ==
    RulePatterns \cup
    { << >>,
      <<"S", "U", "U", "S", "U", "S", "U", "S", "U", "S">>,
      <<"S", "U", "S", "U", "S", "U", "S", "U", "S", "U">>,
      <<"U", "S", "S", "U", "U", "S", "S", "U", "U", "S">> }

DominantContexts ==
    { [meter_name |-> m, conf |-> c, pattern_best_meter |-> << >>,
       pattern_best_score |-> 0, pattern_best_margin |-> 0, stress_pattern |-> pat,
       baseline_meter |-> << >>, baseline_conf |-> 0,
       dominant_meter |-> dm, dominant_ratio |-> dr, dominant_line_count |-> dl] :
        m \in { <<"trochaic", "pentameter">>, IambicPentameter,
                <<"iambic", "tetrameter">>, FreeVerse },
        c \in LowConfidences, pat \in SmoothingPatterns,
        dm \in DominantMeters, dr \in DominantRatios, dl \in DominantLineCounts }

RulesInit ==
    /\ pc = "rules"
    /\ octx \in {[given |-> TRUE, ctx |-> c] :
                     c \in RuleContexts \cup BaselineContexts \cup DominantContexts}
    /\ scan = [ok |-> FALSE]
    /\ rule_hits = [ok |-> FALSE]
    /\ IdleEngine /\ IdleRefiner /\ IdleSublime /\ IdleMain /\ IdlePattern /\ IdleCache /\ IdleExtra

\* each of the four rules called with **ctx
ApplyRules ==
    /\ pc = "rules"
    /\ rule_hits' = [ok |-> TRUE,
                     rescore |-> try_pattern_rescore(octx.ctx),
                     guard |-> try_iambic_guard(octx.ctx),
                     baseline |-> try_baseline_guard(octx.ctx),
                     smoothing |-> try_dominant_smoothing(octx.ctx)]
    /\ pc' = "ruled"
    /\ UNCHANGED <<octx, scan, engineVars, refinerVars, sublimeVars, mainVars,
                   patternVars, cacheVars, extraVars>>

RulesNext == ApplyRules
SpecRules == RulesInit /\ [][RulesNext]_vars

(***************************************************************************)
(* Scan scenario: metermeter_cli.py main, from the request on stdin to the *)
(* payload on stdout.  The refiner's part is its outcome: the refinements  *)
(* it returns, keyed by line number in the order it stored them, or the    *)
(* exception it raises.                                                    *)
(***************************************************************************)
MaxLines == 2

\* a line of no word token: analyze_line returns None
BlankLine == [ntokens |-> 0, words |-> << >>]

\* the items of req["lines"]: a dict with an int lnum and a str text, or not
ScanItems ==
    [kind : {"verse", "blank", "malformed"}, sample : 1..Len(SampleLines),
     lnum : 1..MaxLines]

ScanRequests ==
    [given : {TRUE},
     lines : UNION {[1..k -> ScanItems] : k \in 0..MaxLines},
     llm_enabled : BOOLEAN,
     endpoint : {Null, BlankStr, Str(<<"h">>)},
     model : {BlankStr, Str(<<"m">>)},
     max_lines_per_scan : {0, 1, MaxLines},
     context : {Dominant(<< >>, 0, 0), Dominant(IambicPentameter, Pct(90), 8)}]

\* str(x or "").strip()
stripped_text(x) == IF x.t = "str" /\ ~x.ws THEN Strip(x.v) ELSE << >>

RECURSIVE scan_analyses(_)
\* main's first loop: the analyses of the items the engine can analyse
scan_analyses(lines) ==
    IF lines = << >> THEN << >>
    ELSE LET item == Head(lines)
             a == analyze_line(IF item.kind = "verse" THEN SampleLines[item.sample]
                               ELSE BlankLine, item.lnum, NoContext)
         IN  IF item.kind = "malformed" \/ ~a.ok THEN scan_analyses(Tail(lines))
             ELSE <<a>> \o scan_analyses(Tail(lines))

\* analyses[:max_llm]
scan_subset(analyses, max_llm) == SubSeq(analyses, 1, Min(Len(analyses), max_llm))

\* what the refiner may answer for one baseline
ScanRefinements(a) ==
    { [meter_name |-> a.meter_name, confidence |-> Pct(80),
       token_patterns |-> a.token_patterns],
      [meter_name |-> <<"trochaic", "dimeter">>, confidence |-> Pct(60),
       token_patterns |-> [i \in 1..Len(a.token_patterns) |-> Invert(a.token_patterns[i])]] }

\* the dicts refine_lines may return for the subset, as a list of
\* <<line_no, refinement>> in the dict's order
RefinedDicts(subset) ==
    LET nos == {subset[i].line_no : i \in 1..Len(subset)}
        of(n) == UNION {ScanRefinements(subset[i]) :
                          i \in {j \in 1..Len(subset) : subset[j].line_no = n}}
        one(n) == {[line_no |-> n, r |-> r] : r \in of(n)}
    IN  {<< >>}
        \cup UNION {{<<e>> : e \in one(n)} : n \in nos}
        \cup UNION {{<<e, f>> : e \in one(nm[1]), f \in one(nm[2])} :
                    nm \in {x \in nos \X nos : x[1] # x[2]}}

\* what the call of the refiner in main may come to
RefinerOutcomes(subset) ==
    {[called |-> TRUE, raised |-> TRUE, message |-> m, refined |-> << >>] :
        m \in {"", "llm_timeout"}}
    \cup {[called |-> TRUE, raised |-> FALSE, message |-> "", refined |-> d] :
            d \in RefinedDicts(subset)}
NotCalled == [called |-> FALSE, raised |-> FALSE, message |-> "", refined |-> << >>]

NoError == [set |-> FALSE, message |-> ""]
ErrorMsg(m) == [set |-> TRUE, message |-> m]

\* whether main reaches the refiner: enabled, configured, something to refine
refiner_called(req, analyses) ==
    /\ req.llm_enabled
    /\ stripped_text(req.endpoint) # << >> /\ stripped_text(req.model) # << >>
    /\ req.max_lines_per_scan > 0
    /\ analyses # << >>

\* a scan in which an exception or an empty answer of the refiner is no error
scan_error_config_only(req, analyses, outcome) ==
    IF ~req.llm_enabled THEN ErrorMsg("llm_disabled")
    ELSE IF stripped_text(req.endpoint) = << >> \/ stripped_text(req.model) = << >>
    THEN ErrorMsg("llm_not_configured: endpoint/model required")
    ELSE IF req.max_lines_per_scan <= 0
    THEN ErrorMsg("llm_not_configured: max_lines_per_scan must be > 0")
    ELSE NoError

\* error_msg of main after the refinement step
scan_error(req, analyses, outcome) ==
    IF ~req.llm_enabled THEN ErrorMsg("llm_disabled")
    ELSE IF stripped_text(req.endpoint) = << >> \/ stripped_text(req.model) = << >>
    THEN ErrorMsg("llm_not_configured: endpoint/model required")
    ELSE IF req.max_lines_per_scan <= 0
    THEN ErrorMsg("llm_not_configured: max_lines_per_scan must be > 0")
    ELSE IF analyses = << >> THEN NoError
    ELSE IF outcome.raised
    THEN ErrorMsg(IF outcome.message # "" THEN outcome.message ELSE "llm_refine_failed")
    ELSE IF outcome.refined = << >> THEN ErrorMsg("llm_invalid_or_empty_response")
    ELSE NoError

\* refined.get(line_no)
refined_get(refined, line_no) ==
    LET hits == {i \in 1..Len(refined) : refined[i].line_no = line_no}
    IN  IF hits = {} THEN [found |-> FALSE]
        ELSE [found |-> TRUE, r |-> refined[CHOOSE i \in hits : TRUE].r]

\* the weight of one refinement: max(0.05, min(1.0, conf))
dominant_weight(r) == Max(Pct(5), Min(UNIT, r.confidence))

\* count / total in UNITs, for weights that are whole hundredths: the floor
\* of UNIT * c / t, computed without leaving 32 bits
weight_ratio(count, total) ==
    LET c == count \div Pct(1)
        t == total \div Pct(1)
    IN  (UNIT \div t) * c + ((UNIT % t) * c) \div t

\* counts[meter] of _weighted_dominant_meter
dominant_count(refined, meter) ==
    LET hits == {i \in 1..Len(refined) : refined[i].r.meter_name = meter}
        RECURSIVE total(_)
        total(S) == IF S = {} THEN 0
                    ELSE LET i == CHOOSE x \in S : TRUE
                         IN  dominant_weight(refined[i].r) + total(S \ {i})
    IN  total(hits)

\* _weighted_dominant_meter: the first meter of the greatest weight, its
\* share of the weight, and the number of refinements that name a meter
weighted_dominant_meter(refined) ==
    LET named == {i \in 1..Len(refined) : refined[i].r.meter_name # << >>}
        count(i) == dominant_count(refined, refined[i].r.meter_name)
        RECURSIVE sum(_)
        sum(S) == IF S = {} THEN 0
                  ELSE LET i == CHOOSE x \in S : TRUE
                       IN  dominant_weight(refined[i].r) + sum(S \ {i})
        first == CHOOSE i \in named :
                    /\ \A j \in named : count(j) <= count(i)
                    /\ \A j \in named : (j < i) => count(j) < count(i)
    IN  IF named = {} \/ sum(named) <= 0 THEN Dominant(<< >>, 0, 0)
        ELSE Dominant(refined[first].r.meter_name,
                      weight_ratio(count(first), sum(named)), Cardinality(named))

\* the dominant meter of main: the request's context, else the refinements'
scan_dominant(req, refined) ==
    IF req.context.meter # << >> THEN req.context
    ELSE weighted_dominant_meter(refined)

RECURSIVE scan_results(_, _, _, _)
\* main's second loop: one result per analysis that has a refinement, none
\* once error_msg is set
scan_results(analyses, refined, dom, error) ==
    IF analyses = << >> THEN << >>
    ELSE LET a == Head(analyses)
             got == refined_get(refined, a.line_no)
             rest == scan_results(Tail(analyses), refined, dom, error)
         IN  IF error.set \/ ~got.found THEN rest
             ELSE <<[lnum |-> a.line_no,
                     token_patterns |-> got.r.token_patterns,
                     verdict |-> scan_result(override_ctx(got.r, a, dom))]>> \o rest

\* the payload main writes
scan_payload(req, analyses, outcome, error) ==
    [written |-> TRUE,
     results |-> scan_results(analyses, outcome.refined,
                              scan_dominant(req, outcome.refined), error),
     line_count |-> Len(analyses),
     error |-> error,
     refiner |-> outcome]

MainInit ==
    /\ pc = "main"
    /\ scanreq \in ScanRequests
    /\ scanresp = [written |-> FALSE]
    /\ IdleEngine /\ IdleRefiner /\ IdleSublime /\ IdleCli /\ IdlePattern /\ IdleCache /\ IdleExtra

\* main()
Main ==
    /\ pc = "main"
    /\ \E analyses \in {scan_analyses(scanreq.lines)} :
         \E outcome \in (IF refiner_called(scanreq, analyses)
                         THEN RefinerOutcomes(scan_subset(analyses,
                                                          scanreq.max_lines_per_scan))
                         ELSE {NotCalled}) :
            scanresp' = scan_payload(scanreq, analyses, outcome,
                                     scan_error(scanreq, analyses, outcome))
    /\ pc' = "responded"
    /\ UNCHANGED <<scanreq, engineVars, refinerVars, sublimeVars, cliVars, patternVars,
                   cacheVars, extraVars>>

MainNext == Main
SpecMain == MainInit /\ [][MainNext]_vars


(***************************************************************************)
(* src/llm_refiner.py: the refinement cache, the error cooldown and the    *)
(* lock that guards them.  Each thread calls refine_line, refine_lines or  *)
(* clear_cache; a `with self._lock:` block is a step that takes the lock   *)
(* and a step that runs the block and releases it; a transport call is in  *)
(* flight from the step that sends it to the step that receives its answer.*)
(***************************************************************************)
MaxThreads == 2
MaxCalls == 3
MaxTime == 2
MaxLineNo == 4
CHUNK_SIZE == 3
FALLBACK_MAX == 8

\* error_cooldown_ms / 1000.0, in ticks of the clock
CooldownTicks == {0, 2}

\* the scenarios: one thread making MaxCalls calls of up to MaxLineNo lines
\* over MaxTime ticks, or MaxThreads threads making one call each of up to
\* two lines within one tick
CacheConfigs ==
    {[given |-> TRUE, threads |-> 1, calls |-> MaxCalls, lines |-> MaxLineNo,
      ticks |-> MaxTime, error_cooldown |-> c] : c \in CooldownTicks}
    \cup {[given |-> TRUE, threads |-> MaxThreads, calls |-> 1, lines |-> 2,
           ticks |-> 1, error_cooldown |-> 2]}

\* _cache_key: prompt version, model and the stripped text (their digest)
cache_key(line_text) == <<"v2", "m", Strip(line_text)>>

CacheTexts == {<<"a">>, <<" ", "a">>, <<"b">>}
CacheKeys == {cache_key(x) : x \in CacheTexts}
EmptyCache == [k \in CacheKeys |-> NoRefinement]

\* the LineAnalysis of a text as line line_no
CacheBaseline(line_no, text) ==
    LET b == IF Strip(text) = <<"a">>
             THEN CHOOSE x \in SublimeBaselines : x.ntokens = 4
             ELSE CHOOSE x \in SublimeBaselines : x.ntokens = 2
    IN  [line_no |-> line_no, source_text |-> text, ntokens |-> b.ntokens,
         token_patterns |-> b.token_patterns]

CacheBatches ==
    { << >>,
      <<CacheBaseline(1, <<"a">>)>>,
      <<CacheBaseline(2, <<" ", "a">>), CacheBaseline(1, <<"b">>)>>,
      <<CacheBaseline(1, <<"a">>), CacheBaseline(2, <<"b">>),
        CacheBaseline(3, <<" ", "a">>), CacheBaseline(4, <<"b">>)>> }

\* a content _parse_response accepts for the baseline, and one it rejects
GoodContent(b) ==
    [isdict |-> TRUE,
     final_stress_pattern |-> Str(Invert(Flatten(b.token_patterns))),
     final_meter |-> Str(<<"trochaic", "dimeter">>),
     meter_confidence |-> Num(Pct(90)),
     analysis_hint |-> Str(<<"hint">>),
     token_stress_patterns |->
        List([i \in 1..b.ntokens |-> Str(Invert(b.token_patterns[i]))])]
BadContent == [isdict |-> FALSE]

\* what a transport call comes to: an exception, or a body
Timeout == [kind |-> "exception", timed_out |-> TRUE, message |-> "timed out"]
HttpError == [kind |-> "exception", timed_out |-> FALSE, message |-> "llm_http_error"]
NotJson == [kind |-> "body", json |-> FALSE]
LineBody(content) == [kind |-> "body", json |-> TRUE, content |-> content]
BatchBody(results) == [kind |-> "body", json |-> TRUE, results |-> results]

LineAnswers(baseline) ==
    {Timeout, HttpError, NotJson, LineBody(BadContent), LineBody(GoodContent(baseline))}

\* answers to a chunk: every line valid, only the first valid, no results
BatchAnswers(chunk) ==
    {Timeout, HttpError, NotJson, BatchBody(<< >>),
     BatchBody([i \in 1..Len(chunk) |->
                  [line_no |-> chunk[i].line_no, content |-> GoodContent(chunk[i])]]),
     BatchBody([i \in 1..Len(chunk) |->
                  [line_no |-> chunk[i].line_no,
                   content |-> IF i = 1 THEN GoodContent(chunk[i]) ELSE BadContent]])}

\* a dict line_no -> refinement, NoRefinement for a missing key
NoRefinements == [n \in 1..MaxLineNo |-> NoRefinement]
IsEmptyDict(d) == \A n \in 1..MaxLineNo : ~d[n].ok

\* {b.line_no: b for b in chunk}.get(line_no): the last of that number
chunk_baseline(chunk, line_no) ==
    LET hits == {i \in 1..Len(chunk) : chunk[i].line_no = line_no}
    IN  chunk[CHOOSE i \in hits : \A j \in hits : j <= i]

RECURSIVE parse_batch_items(_, _, _)
\* the loop of _parse_batch_response over results
parse_batch_items(results, chunk, parsed_out) ==
    IF results = << >> THEN parsed_out
    ELSE LET item == Head(results)
             known == \E i \in 1..Len(chunk) : chunk[i].line_no = item.line_no
             refinement == parse_response(item.content,
                                          chunk_baseline(chunk, item.line_no))
         IN  parse_batch_items(Tail(results), chunk,
                               IF known /\ refinement.ok
                               THEN [parsed_out EXCEPT ![item.line_no] = refinement]
                               ELSE parsed_out)

\* _parse_batch_response(body, chunk) for a body that is JSON
parse_batch_response(body, chunk) == parse_batch_items(body.results, chunk, NoRefinements)

\* the exception a transport answer raises in the caller's try block: the
\* transport's own, or json.loads's on a body that is not JSON
raised_by(answer) ==
    IF answer.kind = "exception" THEN [raised |-> TRUE, timed_out |-> answer.timed_out,
                                       message |-> answer.message]
    ELSE IF ~answer.json THEN [raised |-> TRUE, timed_out |-> FALSE,
                               message |-> "JSONDecodeError"]
    ELSE [raised |-> FALSE, timed_out |-> FALSE, message |-> ""]

NoBaseline == [line_no |-> 0]
NotReturned == [done |-> FALSE]
Returned(op, value) == [done |-> TRUE, op |-> op, value |-> value]

\* a thread between calls, with `left` calls to make
IdleThread(left) ==
    [pc |-> "idle", left |-> left, op |-> "none",
     req |-> << >>, pending |-> << >>, refinements |-> NoRefinements,
     had_timeout |-> FALSE, start |-> 0, fb |-> 0,
     cur |-> NoBaseline, l_timeout |-> FALSE, l_ref |-> NoRefinement, err |-> "",
     sent |-> 0, cool |-> FALSE, hits |-> {}, cleared_at |-> 0,
     ret |-> NotReturned]

\* the positions inside a `with self._lock:` block
LockedPositions ==
    {"line_check", "line_err", "line_final", "lines_check", "lines_hits", "lines_err",
     "lines_final", "clear"}

\* the cache keys a thread has a transport call in flight for
InFlight(th) ==
    IF th.pc = "line_wait" THEN {cache_key(th.cur.source_text)}
    ELSE IF th.pc = "lines_wait"
    THEN {cache_key(th.pending[i].source_text) :
            i \in th.start..Min(Len(th.pending), th.start + CHUNK_SIZE - 1)}
    ELSE {}

\* out of refine_lines: the cached refinement of each baseline, by line_no
cached_out(c, baselines) ==
    [n \in 1..MaxLineNo |->
        LET hits == {i \in 1..Len(baselines) :
                        baselines[i].line_no = n
                        /\ c[cache_key(baselines[i].source_text)].ok}
        IN  IF hits = {} THEN NoRefinement
            ELSE c[cache_key(baselines[CHOOSE i \in hits : \A j \in hits : j <= i]
                                .source_text)]]

RECURSIVE cache_update(_, _, _)
\* the final block's loop: self._cache[key] = refinement, for each pending
\* baseline that has one
cache_update(c, pending, refinements) ==
    IF pending = << >> THEN c
    ELSE LET b == Head(pending)
         IN  cache_update(IF refinements[b.line_no].ok
                          THEN [c EXCEPT ![cache_key(b.source_text)] =
                                            refinements[b.line_no]]
                          ELSE c,
                          Tail(pending), refinements)

\* a final block that starts the cooldown after a timeout as well
cooldown_after_any_failure(until, had_timeout, failed, error_cooldown, time) ==
    IF failed /\ error_cooldown > 0 THEN time + error_cooldown ELSE until

\* _cooldown_until after the final block of refine_line or refine_lines
cooldown_after(until, had_timeout, failed, error_cooldown, time) ==
    IF ~had_timeout /\ failed /\ error_cooldown > 0 THEN time + error_cooldown
    ELSE until

\* refine_line returns value: to the caller, or to refine_lines' fallback
\* loop, which stores it and goes on to the next pending line
line_return(th, value) ==
    IF th.fb = 0
    THEN [th EXCEPT !.pc = "idle", !.ret = Returned("line", value)]
    ELSE LET refinements == IF value.ok
                            THEN [th.refinements EXCEPT ![th.cur.line_no] = value]
                            ELSE th.refinements
         IN  IF th.fb < Min(FALLBACK_MAX, Len(th.pending))
             THEN [th EXCEPT !.refinements = refinements, !.fb = th.fb + 1,
                             !.cur = th.pending[th.fb + 1],
                             !.l_timeout = FALSE, !.l_ref = NoRefinement,
                             !.pc = "line_check"]
             ELSE [th EXCEPT !.refinements = refinements, !.pc = "lines_final"]

\* refine_lines after a chunk: the next chunk, or, after the last, the
\* fallback loop if nothing was parsed, else the final block
after_chunk(th) ==
    IF th.start + CHUNK_SIZE <= Len(th.pending)
    THEN [th EXCEPT !.start = th.start + CHUNK_SIZE, !.pc = "lines_wait",
                    !.sent = th.sent + 1]
    ELSE IF IsEmptyDict(th.refinements)
    THEN [th EXCEPT !.fb = 1, !.cur = th.pending[1], !.l_timeout = FALSE,
                    !.l_ref = NoRefinement, !.pc = "line_check"]
    ELSE [th EXCEPT !.pc = "lines_final"]

CacheInit ==
    /\ pc = "cache"
    /\ cfg \in CacheConfigs
    /\ cache = EmptyCache
    /\ cooldown_until = 0
    /\ llm_error = ""
    /\ lock = 0
    /\ now = 0
    /\ cleared = 0
    /\ threads = [t \in 1..cfg.threads |-> IdleThread(cfg.calls)]
    /\ IdleEngine /\ IdleRefiner /\ IdleSublime /\ IdleCli /\ IdleMain /\ IdlePattern
    /\ IdleExtra

otherVars ==
    <<pc, engineVars, refinerVars, sublimeVars, cliVars, mainVars, patternVars, extraVars>>

\* thread t exists in the scenario
Active(t) == pc = "cache" /\ t \in DOMAIN threads

\* a thread calls refine_line(text, baseline, ...)
CallLine(t) ==
    /\ Active(t) /\ threads[t].pc = "idle" /\ threads[t].left > 0
    /\ \E text \in CacheTexts :
          threads' = [threads EXCEPT ![t] =
                        [IdleThread(threads[t].left - 1) EXCEPT
                            !.op = "line", !.cur = CacheBaseline(1, text),
                            !.pc = "line_check"]]
    /\ UNCHANGED <<cfg, cache, cooldown_until, llm_error, lock, now, cleared, otherVars>>

\* a thread calls refine_lines(baselines, ...): {} at once for no baselines
CallLines(t) ==
    /\ Active(t) /\ threads[t].pc = "idle" /\ threads[t].left > 0
    /\ \E baselines \in {b \in CacheBatches : Len(b) <= cfg.lines} :
          threads' = [threads EXCEPT ![t] =
                        IF baselines = << >>
                        THEN [IdleThread(threads[t].left - 1) EXCEPT
                                !.op = "lines", !.ret = Returned("lines", NoRefinements)]
                        ELSE [IdleThread(threads[t].left - 1) EXCEPT
                                !.op = "lines", !.req = baselines, !.pc = "lines_check"]]
    /\ UNCHANGED <<cfg, cache, cooldown_until, llm_error, lock, now, cleared, otherVars>>

\* a thread calls clear_cache()
CallClear(t) ==
    /\ Active(t) /\ threads[t].pc = "idle" /\ threads[t].left > 0
    /\ threads' = [threads EXCEPT ![t] =
                     [IdleThread(threads[t].left - 1) EXCEPT !.op = "clear", !.pc = "clear"]]
    /\ UNCHANGED <<cfg, cache, cooldown_until, llm_error, lock, now, cleared, otherVars>>

\* with self._lock: the thread takes the free lock
Acquire(t) ==
    /\ Active(t) /\ threads[t].pc \in LockedPositions
    /\ lock = 0
    /\ lock' = t
    /\ UNCHANGED <<cfg, cache, cooldown_until, llm_error, now, cleared, threads, otherVars>>

\* refine_line's first block: the cached refinement, None in a cooldown, or
\* on to the transport call
LineCheck(t) ==
    LET th == threads[t]
        cached == cache[cache_key(th.cur.source_text)]
    IN  /\ Active(t) /\ th.pc = "line_check" /\ lock = t
        /\ threads' = [threads EXCEPT ![t] =
              IF cached.ok
              THEN line_return(IF th.fb = 0
                               THEN [th EXCEPT !.hits = {1}, !.cleared_at = cleared]
                               ELSE th, cached)
              ELSE IF now < cooldown_until
              THEN line_return(IF th.fb = 0 THEN [th EXCEPT !.cool = TRUE] ELSE th,
                               NoRefinement)
              ELSE [th EXCEPT !.pc = "line_wait", !.sent = th.sent + 1]]
        /\ lock' = 0
        /\ UNCHANGED <<cfg, cache, cooldown_until, llm_error, now, cleared, otherVars>>

\* refine_line's transport call returns or raises; the body is parsed
LineRecv(t) ==
    LET th == threads[t]
    IN  /\ Active(t) /\ th.pc = "line_wait"
        /\ \E answer \in LineAnswers(th.cur) :
              threads' = [threads EXCEPT ![t] =
                 IF raised_by(answer).raised
                 THEN [th EXCEPT !.l_timeout = raised_by(answer).timed_out,
                                 !.l_ref = NoRefinement,
                                 !.err = raised_by(answer).message,
                                 !.pc = "line_err"]
                 ELSE [th EXCEPT !.l_ref = parse_response(answer.content, th.cur),
                                 !.pc = "line_final"]]
        /\ UNCHANGED <<cfg, cache, cooldown_until, llm_error, lock, now, cleared, otherVars>>

\* _set_last_error in refine_line's except block
LineErr(t) ==
    LET th == threads[t]
    IN  /\ Active(t) /\ th.pc = "line_err" /\ lock = t
        /\ llm_error' = th.err
        /\ threads' = [threads EXCEPT ![t] = [th EXCEPT !.err = "", !.pc = "line_final"]]
        /\ lock' = 0
        /\ UNCHANGED <<cfg, cache, cooldown_until, now, cleared, otherVars>>

\* refine_line's final block
LineFinal(t) ==
    LET th == threads[t]
    IN  /\ Active(t) /\ th.pc = "line_final" /\ lock = t
        /\ cache' = IF th.l_ref.ok
                    THEN [cache EXCEPT ![cache_key(th.cur.source_text)] = th.l_ref]
                    ELSE cache
        /\ cooldown_until' = cooldown_after(cooldown_until, th.l_timeout, ~th.l_ref.ok,
                                            cfg.error_cooldown, now)
        /\ threads' = [threads EXCEPT ![t] = line_return(th, th.l_ref)]
        /\ lock' = 0
        /\ UNCHANGED <<cfg, llm_error, now, cleared, otherVars>>

\* refine_lines' first block: {} in a cooldown, else the uncached baselines
LinesCheck(t) ==
    LET th == threads[t]
        pending == SelectSeq(th.req, LAMBDA b : ~cache[cache_key(b.source_text)].ok)
        seen == [th EXCEPT !.hits = {i \in 1..Len(th.req) :
                                        cache[cache_key(th.req[i].source_text)].ok},
                           !.cleared_at = cleared]
    IN  /\ Active(t) /\ th.pc = "lines_check" /\ lock = t
        /\ threads' = [threads EXCEPT ![t] =
              IF now < cooldown_until
              THEN [seen EXCEPT !.cool = TRUE, !.pc = "idle",
                                !.ret = Returned("lines", NoRefinements)]
              ELSE IF pending = << >> THEN [seen EXCEPT !.pc = "lines_hits"]
              ELSE [seen EXCEPT !.pending = pending, !.start = 1, !.pc = "lines_wait",
                                !.sent = th.sent + 1]]
        /\ lock' = 0
        /\ UNCHANGED <<cfg, cache, cooldown_until, llm_error, now, cleared, otherVars>>

\* refine_lines with nothing pending: the cached refinements
LinesHits(t) ==
    LET th == threads[t]
    IN  /\ Active(t) /\ th.pc = "lines_hits" /\ lock = t
        /\ threads' = [threads EXCEPT ![t] =
              [th EXCEPT !.pc = "idle",
                         !.ret = Returned("lines", cached_out(cache, th.req))]]
        /\ lock' = 0
        /\ UNCHANGED <<cfg, cache, cooldown_until, llm_error, now, cleared, otherVars>>

\* a chunk's transport call returns or raises; the body is parsed
LinesRecv(t) ==
    LET th == threads[t]
        chunk == SubSeq(th.pending, th.start,
                        Min(Len(th.pending), th.start + CHUNK_SIZE - 1))
    IN  /\ Active(t) /\ th.pc = "lines_wait"
        /\ \E answer \in BatchAnswers(chunk) :
              threads' = [threads EXCEPT ![t] =
                 IF raised_by(answer).raised
                 THEN [th EXCEPT !.had_timeout = th.had_timeout
                                                   \/ raised_by(answer).timed_out,
                                 !.err = raised_by(answer).message,
                                 !.pc = "lines_err"]
                 ELSE LET parsed_chunk == parse_batch_response(answer, chunk)
                      IN  after_chunk([th EXCEPT !.refinements =
                             [n \in 1..MaxLineNo |->
                                IF parsed_chunk[n].ok THEN parsed_chunk[n]
                                ELSE th.refinements[n]]])]
        /\ UNCHANGED <<cfg, cache, cooldown_until, llm_error, lock, now, cleared, otherVars>>

\* _set_last_error in the chunk loop's except block
LinesErr(t) ==
    LET th == threads[t]
    IN  /\ Active(t) /\ th.pc = "lines_err" /\ lock = t
        /\ llm_error' = th.err
        /\ threads' = [threads EXCEPT ![t] = after_chunk([th EXCEPT !.err = ""])]
        /\ lock' = 0
        /\ UNCHANGED <<cfg, cache, cooldown_until, now, cleared, otherVars>>

\* refine_lines' final block
LinesFinal(t) ==
    LET th == threads[t]
        updated == cache_update(cache, th.pending, th.refinements)
    IN  /\ Active(t) /\ th.pc = "lines_final" /\ lock = t
        /\ cache' = updated
        /\ cooldown_until' = cooldown_after(cooldown_until, th.had_timeout,
                                            IsEmptyDict(th.refinements),
                                            cfg.error_cooldown, now)
        /\ threads' = [threads EXCEPT ![t] =
              [th EXCEPT !.pc = "idle",
                         !.ret = Returned("lines", cached_out(updated, th.req))]]
        /\ lock' = 0
        /\ UNCHANGED <<cfg, llm_error, now, cleared, otherVars>>

\* clear_cache's block
ClearCache(t) ==
    LET th == threads[t]
    IN  /\ Active(t) /\ th.pc = "clear" /\ lock = t
        /\ cache' = EmptyCache
        /\ cooldown_until' = 0
        /\ llm_error' = ""
        /\ cleared' = cleared + 1
        /\ threads' = [threads EXCEPT ![t] =
              [th EXCEPT !.pc = "idle", !.ret = Returned("clear", NoRefinement)]]
        /\ lock' = 0
        /\ UNCHANGED <<cfg, now, otherVars>>

\* time.time() moves on
Tick ==
    /\ pc = "cache" /\ now < cfg.ticks
    /\ now' = now + 1
    /\ UNCHANGED <<cfg, cache, cooldown_until, llm_error, lock, cleared, threads, otherVars>>

CacheNext ==
    \/ \E t \in 1..MaxThreads :
          \/ CallLine(t) \/ CallLines(t) \/ CallClear(t) \/ Acquire(t)
          \/ LineCheck(t) \/ LineRecv(t) \/ LineErr(t) \/ LineFinal(t)
          \/ LinesCheck(t) \/ LinesHits(t) \/ LinesRecv(t) \/ LinesErr(t)
          \/ LinesFinal(t) \/ ClearCache(t)
    \/ Tick
SpecCache == CacheInit /\ [][CacheNext]_vars

(***************************************************************************)
(* Rescoring scenario: best_meter_for_stress_pattern on one stress         *)
(* pattern; with the engine scenario, every way the engine names a meter.  *)
(***************************************************************************)
MaxPattern == 8

\* every pattern of up to MaxPattern syllables, the exact repetitions of each
\* foot, and the nine alternating syllables that end unstressed
StressPatterns ==
    UNION {[1..n -> {"U", "S"}] : n \in 1..MaxPattern}
    \cup {template_for_meter(foot, feet) : foot \in FootNames, feet \in 1..6}
    \cup {AsPattern(<<0, 1, 0, 1, 0, 1, 0, 1, 0>>)}

PatternInit ==
    /\ pc = "pattern"
    /\ stress_in \in StressPatterns
    /\ verdict = [ok |-> FALSE]
    /\ IdleEngine /\ IdleRefiner /\ IdleSublime /\ IdleCli /\ IdleMain /\ IdleCache /\ IdleExtra

\* MeterEngine.best_meter_for_stress_pattern(stress_pattern)
BestMeter ==
    /\ pc = "pattern"
    /\ \E best \in {best_meter_for_stress_pattern(stress_in)} :
          verdict' = [ok |-> TRUE, meter_name |-> best.meter_name,
                      score |-> best.score, margin |-> best.margin,
                      candidates |-> meter_candidates(stress_symbols(stress_in))]
    /\ pc' = "rescored"
    /\ UNCHANGED <<stress_in, engineVars, refinerVars, sublimeVars, cliVars, mainVars,
                   cacheVars, extraVars>>

PatternNext == BestMeter
SpecPattern == PatternInit /\ [][PatternNext]_vars

\* the engine's two ways to a meter: a line's analysis, a pattern's rescoring
MeterInit == EngineInit \/ PatternInit
MeterNext == AnalyzeLine \/ BestMeter
SpecMeter == MeterInit /\ [][MeterNext]_vars

(***************************************************************************)
(* Object scenario: one baseline LineAnalysis handed through the stages    *)
(* that follow the engine, with object identity.  A list or a record is an *)
(* entry of the heap and a field holds its index, so that two records can  *)
(* share one list and an append through one of them shows in the other.    *)
(* Strings and numbers are values.                                         *)
(***************************************************************************)
\* the heap with one more list; the new list's identity is Len of .lists
Alloc(h, v) == [h EXCEPT !.lists = Append(@, v)]
\* the heap with one more record
NewRec(h, r) == [h EXCEPT !.recs = Append(@, r)]

TokenNames == <<"w1", "w2", "w3", "w4">>

\* LineAnalysis(...) as analyze_line constructs it: tokens and token_patterns
\* are lists of their own
LineAnalysisRec(b, tokens_id, patterns_id) ==
    [cls |-> "LineAnalysis",
     v |-> [b EXCEPT !.token_patterns = << >>],
     tokens |-> tokens_id,
     token_patterns |-> patterns_id,
     source |-> "engine"]

\* the heap after analyze_line returned baseline b: lists 1 and 2, record 1
BaselineHeap(b) ==
    NewRec(Alloc(Alloc(EmptyHeap, SubSeq(TokenNames, 1, b.ntokens)), b.token_patterns),
           LineAnalysisRec(b, 1, 2))

\* the fields of LineAnalysis id as a reader finds them
base_view(h, id) ==
    [h.recs[id].v EXCEPT !.token_patterns = h.lists[h.recs[id].token_patterns],
                         !.ntokens = Len(h.lists[h.recs[id].tokens])]

\* the record and the lists it refers to
deep(h, id) ==
    [rec |-> h.recs[id],
     tokens |-> h.lists[h.recs[id].tokens],
     token_patterns |-> h.lists[h.recs[id].token_patterns]]

\* the sub-patterns normalised before the first one that fails
RECURSIVE normalized_prefix(_, _, _)
normalized_prefix(fitted, base, i) ==
    IF i > base.ntokens THEN << >>
    ELSE LET token_syllables == IF Len(base.token_patterns) # base.ntokens THEN 1
                                ELSE Len(base.token_patterns[i])
             baseline_pat == IF i <= Len(base.token_patterns)
                             THEN base.token_patterns[i] ELSE << >>
             norm == IF fitted[i].t # "str" THEN << >>
                     ELSE normalize_token_pattern(fitted[i].v, token_syllables,
                                                  baseline_pat)
         IN  IF norm = << >> THEN << >>
             ELSE <<norm>> \o normalized_prefix(fitted, base, i + 1)

\* refine_lines, the loop body for one entry of results: the heap afterwards
\* and the LLMRefinement stored in out (0 when the entry is skipped).  refs
\* are the identities of the entry's token_stress_patterns and
\* token_patterns lists as json.loads built them (0 when not a list).
refine_entry(h, item, refs, base_id) ==
    LET base == base_view(h, base_id)
        meter_name == Or(Or(item.meter_name, item.final_meter), Str(<< >>))
        conf == Or(item.confidence, item.meter_confidence)
        token_patterns == Or(Or(item.token_stress_patterns, item.token_patterns),
                             List(<< >>))
        \* "x or y or []": the first truthy list itself, else a new empty list
        fresh == ~Truthy(item.token_stress_patterns) /\ ~Truthy(item.token_patterns)
        h1 == IF fresh THEN Alloc(h, << >>) ELSE h
        ref1 == IF fresh THEN Len(h1.lists)
                ELSE IF Truthy(item.token_stress_patterns) THEN refs.token_stress_patterns
                ELSE refs.token_patterns
        len1 == Len(h1.lists[ref1])
        \* a slice is a new list; token_patterns.append(fallback) extends the
        \* entry's list in place
        h2 == IF len1 > base.ntokens
              THEN Alloc(h1, SubSeq(h1.lists[ref1], 1, base.ntokens))
              ELSE IF len1 < base.ntokens
              THEN [h1 EXCEPT !.lists[ref1] = fit_token_patterns(@, base)]
              ELSE h1
        ref2 == IF len1 > base.ntokens THEN Len(h2.lists) ELSE ref1
        prefix == normalized_prefix(h2.lists[ref2], base, 1)
        h3 == Alloc(h2, prefix)
        refinement == validate_item(item, base)
    IN  IF item_line(item, {base.line_no}) = 0 THEN [heap |-> h, refinement |-> 0]
        ELSE IF meter_name.t # "str" \/ meter_name.v = << >>
             THEN [heap |-> h, refinement |-> 0]
        ELSE IF conf.t # "num" THEN [heap |-> h, refinement |-> 0]
        ELSE IF token_patterns.t # "list" THEN [heap |-> h, refinement |-> 0]
        ELSE IF Len(prefix) # base.ntokens THEN [heap |-> h3, refinement |-> 0]
        ELSE [heap |-> NewRec(h3, [cls |-> "LLMRefinement",
                                   meter_name |-> refinement.meter_name,
                                   confidence |-> refinement.confidence,
                                   token_patterns |-> Len(h3.lists)]),
              refinement |-> Len(h3.recs) + 1]

\* refine_lines on a mock:// endpoint: list(b.token_patterns or []) is a copy
refine_mock(h, base_id) ==
    LET base == base_view(h, base_id)
        h1 == Alloc(h, base.token_patterns)
    IN  [heap |-> NewRec(h1, [cls |-> "LLMRefinement",
                              meter_name |-> base.meter_name,
                              confidence |-> Clamp01(base.confidence),
                              token_patterns |-> Len(h1.lists)]),
         refinement |-> Len(h1.recs) + 1]

\* src/llm_refiner.py _parse_response: the lists it builds are new ones
parse_entry(h, content, base_id) ==
    LET r == parse_response(content, base_view(h, base_id))
        h1 == Alloc(h, r.token_patterns)
    IN  IF ~r.ok THEN [heap |-> h, refinement |-> 0]
        ELSE [heap |-> NewRec(h1, [cls |-> "LLMRefinement",
                                   stress_pattern |-> r.stress_pattern,
                                   meter_name |-> r.meter_name,
                                   confidence |-> r.confidence,
                                   token_patterns |-> Len(h1.lists)]),
              refinement |-> Len(h1.recs) + 1]

\* _feet_count_from_meter_name
feet_count_from_meter_name(meter_name) ==
    IF meter_name # << >> /\ meter_name[Len(meter_name)] \in LineNames
    THEN FeetOfLine(meter_name[Len(meter_name)]) ELSE 0

\* the merged values of _merge_llm_refinement and the list its
\* token_patterns field refers to: the refinement's list, a new list split
\* from the stress pattern, or the analysis's own list
merged_fields(h, analysis_id, refinement_id, override_meter, override_stress) ==
    LET a == h.recs[analysis_id]
        r == h.recs[refinement_id]
        stress_pattern == IF override_stress THEN r.stress_pattern
                          ELSE a.v.stress_pattern
        own == h.lists[r.token_patterns] # << >>
        split_patterns == split_stress_by_baseline(stress_pattern,
                                                   h.lists[a.token_patterns])
        splits == override_stress /\ ~own
        h1 == IF splits THEN Alloc(h, split_patterns) ELSE h
        meter_name == IF override_meter THEN r.meter_name ELSE a.v.meter_name
        inferred_feet == feet_count_from_meter_name(meter_name)
    IN  [heap |-> h1,
         v |-> [a.v EXCEPT !.stress_pattern = stress_pattern,
                           !.meter_name = meter_name,
                           !.confidence = IF override_meter THEN r.confidence
                                          ELSE a.v.confidence,
                           !.feet_count = IF override_meter /\ inferred_feet > 0
                                          THEN inferred_feet ELSE a.v.feet_count],
         token_patterns |-> IF override_stress /\ own THEN r.token_patterns
                            ELSE IF splits /\ split_patterns # << >> THEN Len(h1.lists)
                            ELSE a.token_patterns]

\* the merge writing its values into the analysis it was given
merge_llm_refinement_in_place(h, analysis_id, refinement_id, override_meter, override_stress) ==
    LET m == merged_fields(h, analysis_id, refinement_id, override_meter,
                           override_stress)
    IN  [heap |-> [m.heap EXCEPT !.recs[analysis_id] =
                      [@ EXCEPT !.v = m.v, !.token_patterns = m.token_patterns,
                                !.source = "llm"]],
         merged |-> analysis_id]

\* _merge_llm_refinement: return LineAnalysis(...), a new record that shares
\* the analysis's tokens list
merge_llm_refinement(h, analysis_id, refinement_id, override_meter, override_stress) ==
    LET m == merged_fields(h, analysis_id, refinement_id, override_meter,
                           override_stress)
    IN  [heap |-> NewRec(m.heap, [cls |-> "LineAnalysis",
                                  v |-> m.v,
                                  tokens |-> h.recs[analysis_id].tokens,
                                  token_patterns |-> m.token_patterns,
                                  source |-> "llm"]),
         merged |-> Len(m.heap.recs) + 1]

\* main, the loop body for analysis a with refinement r, once the override
\* rules gave result: the results entry is a new dict; its token_patterns is
\* the refinement's list, or a new empty list when that one is empty
scan_entry(h, analysis_id, refinement_id, result) ==
    LET r == h.recs[refinement_id]
        empty == h.lists[r.token_patterns] = << >>
        h1 == IF empty THEN Alloc(h, << >>) ELSE h
    IN  [heap |-> NewRec(h1, [cls |-> "result",
                              lnum |-> h.recs[analysis_id].v.line_no,
                              v |-> result,
                              token_patterns |-> IF empty THEN Len(h1.lists)
                                                 ELSE r.token_patterns]),
         entry |-> Len(h1.recs) + 1]

\* getattr(r, ...): the refinement's fields as main reads them
refinement_view(h, id) ==
    [meter_name |-> h.recs[id].meter_name,
     confidence |-> h.recs[id].confidence,
     token_patterns |-> h.lists[h.recs[id].token_patterns]]

\* entries of an nvim batch response for baseline b
FrameItems(b) ==
    LET g == GoodItem(b)
    IN  { g,
          [g EXCEPT !.meter_name = Null, !.final_meter = Str(<<"iambic", "trimeter">>)],
          [g EXCEPT !.token_stress_patterns = List(<< >>)],
          [g EXCEPT !.token_stress_patterns = Null],
          [g EXCEPT !.token_stress_patterns = List(<<Str(<<"S">>)>>)],
          [g EXCEPT !.token_stress_patterns = List(GoodPatterns(b) \o <<Str(<<"S">>)>>)],
          [g EXCEPT !.token_stress_patterns = List(<<Str(<<"X">>)>>)],
          [g EXCEPT !.token_stress_patterns = Null,
                    !.token_patterns = List(SubSeq(GoodPatterns(b), 1, 1))],
          [g EXCEPT !.confidence = Other] }

\* responses of the Sublime refiner for baseline b
FrameContents(b) ==
    [isdict : {TRUE},
     final_stress_pattern : SublimeStress(b),
     final_meter : {Str(<<"trochaic", "dimeter">>), Str(<<"iambs">>)},
     meter_confidence : {Num(Pct(90))},
     analysis_hint : {Str(<<"hint">>)},
     token_stress_patterns : SublimeTokenPatterns(b)]

FrameDominants == { Dominant(<< >>, 0, 0), Dominant(<<"iambic", "dimeter">>, Pct(85), 12) }

FrameBaselines == { analyze_line(SampleLines[k], 1, NoContext) : k \in 1..Len(SampleLines) }

\* the heap after json.loads built the entry: its lists follow the baseline's
ItemHeap(b, item) ==
    LET h0 == BaselineHeap(b)
        h1 == IF item.token_stress_patterns.t = "list"
              THEN Alloc(h0, item.token_stress_patterns.v) ELSE h0
    IN  IF item.token_patterns.t = "list" THEN Alloc(h1, item.token_patterns.v) ELSE h1

ItemRefs(b, item) ==
    [token_stress_patterns |-> IF item.token_stress_patterns.t = "list" THEN 3 ELSE 0,
     token_patterns |-> IF item.token_patterns.t # "list" THEN 0
                        ELSE IF item.token_stress_patterns.t = "list" THEN 4 ELSE 3]

FrameInit ==
    /\ pc = "frame"
    /\ \E b \in FrameBaselines :
          \/ \E item \in FrameItems(b), dom \in FrameDominants,
                endpoint_kind \in Endpoints :
                /\ heap = ItemHeap(b, item)
                /\ frame = [given |-> TRUE, flavour |-> "nvim", baseline |-> 1,
                            snapshot |-> deep(heap, 1), item |-> item,
                            refs |-> ItemRefs(b, item), endpoint |-> endpoint_kind,
                            dominant |-> dom, refinement |-> 0, product |-> 0,
                            raised |-> None]
          \/ \E content \in FrameContents(b), om \in BOOLEAN, os \in BOOLEAN :
                /\ heap = BaselineHeap(b)
                /\ frame = [given |-> TRUE, flavour |-> "sublime", baseline |-> 1,
                            snapshot |-> deep(heap, 1), content |-> content,
                            override_meter |-> om, override_stress |-> os,
                            refinement |-> 0, product |-> 0, raised |-> None]
    /\ IdleEngine /\ IdleRefiner /\ IdleSublime /\ IdleCli /\ IdleMain /\ IdlePattern
    /\ IdleCache /\ IdleLater

frameOthers ==
    <<engineVars, refinerVars, sublimeVars, cliVars, mainVars, patternVars, cacheVars,
      laterVars>>

\* the nvim LLMRefiner.refine_lines on the baseline
RefineEntry ==
    /\ pc = "frame" /\ frame.flavour = "nvim"
    /\ LET e == IF frame.endpoint = "mock://" THEN refine_mock(heap, frame.baseline)
                ELSE refine_entry(heap, frame.item, frame.refs, frame.baseline)
       IN  /\ heap' = e.heap
           /\ frame' = [frame EXCEPT !.refinement = e.refinement]
           /\ pc' = IF e.refinement = 0 THEN "frame_done" ELSE "frame_refined"
    /\ UNCHANGED frameOthers

\* the Sublime LLMRefiner._parse_response on the baseline
ParseEntry ==
    /\ pc = "frame" /\ frame.flavour = "sublime"
    /\ LET e == parse_entry(heap, frame.content, frame.baseline)
       IN  /\ heap' = e.heap
           /\ frame' = [frame EXCEPT !.refinement = e.refinement]
           /\ pc' = IF e.refinement = 0 THEN "frame_done" ELSE "frame_refined"
    /\ UNCHANGED frameOthers

\* poetry_meter.py: merged = _merge_llm_refinement(...); analyses[line_no] = merged.
\* With the LineAnalysis of src/meter_engine.py, which has no token_patterns
\* field, the call ends in AttributeError at its first read of it and
\* nothing is constructed.
MergeRefinement ==
    /\ pc = "frame_refined" /\ frame.flavour = "sublime"
    /\ \/ \E m \in {merge_llm_refinement(heap, frame.baseline, frame.refinement,
                                          frame.override_meter, frame.override_stress)} :
             /\ heap' = m.heap
             /\ frame' = [frame EXCEPT !.product = m.merged]
       \/ /\ frame' = [frame EXCEPT !.raised = "AttributeError"]
          /\ UNCHANGED heap
    /\ pc' = "frame_done"
    /\ UNCHANGED frameOthers

\* metermeter_cli.py main: the arbitration of the line and results.append
ScanEntry ==
    /\ pc = "frame_refined" /\ frame.flavour = "nvim"
    /\ \E r \in {refinement_view(heap, frame.refinement)},
          a \in {base_view(heap, frame.baseline)} :
          \E c \in {override_ctx(r, a, frame.dominant)} :
             \E s \in {scan_entry(heap, frame.baseline, frame.refinement,
                                  scan_result(c))} :
                /\ heap' = s.heap
                /\ frame' = [frame EXCEPT !.product = s.entry]
    /\ pc' = "frame_done"
    /\ UNCHANGED frameOthers

FrameNext == RefineEntry \/ ParseEntry \/ MergeRefinement \/ ScanEntry
SpecFrame == FrameInit /\ [][FrameNext]_vars

(***************************************************************************)
(* Session scenario: one MeterEngine analyses several lines in a row, each *)
(* with its own context; session.history keeps every call's input with the *)
(* LineAnalysis it returned and the ranking its debug_scores show.         *)
(***************************************************************************)
MaxSession == 3     \* analyze_line calls made on one engine

\* the attributes of a MeterEngine instance: __init__ sets none
NewEngine == [dict |-> << >>]

\* meter_paths as _best_meter_for_ambiguous_syllables holds it after the sort
sorted_meter_paths(syllables, context) ==
    LET ctx == coerce_context(context)
        cands == candidate_meters_for_syllables(Len(syllables))
    IN  SortByScore(
            SelectSeq([k \in 1..Len(cands) |->
                          meter_path(syllables, cands[k][1], cands[k][2], ctx)],
                      LAMBDA p : p.pattern # << >>),
            << >>)

\* the top1..top4 keys of debug_scores, in rank order
debug_top(meter_paths) ==
    [idx \in 1..Min(4, Len(meter_paths)) |->
        [foot_name |-> meter_paths[idx].foot_name,
         feet |-> meter_paths[idx].feet,
         adjusted_score |-> meter_paths[idx].adjusted_score,
         base_score |-> meter_paths[idx].base_score]]

\* the syllables analyze_line builds from the oracle's word tokens
line_syllables(line) ==
    SyllableUnits(SelectSeq(line.words, LAMBDA w : w.syls # << >>), line.ntokens, 0)

\* a call that keeps the last context it was given on the instance and
\* falls back to it when called without one
engine_analyze_line_remembering(self, line, context) ==
    LET used == IF context.given \/ self.dict = << >> THEN context ELSE self.dict[1]
        a == analyze_line(line, 0, used)
    IN  [self |-> [dict |-> IF context.given THEN <<context>> ELSE self.dict],
         analysis |-> a,
         top |-> IF a.ok THEN debug_top(sorted_meter_paths(line_syllables(line), used))
                 ELSE << >>]

\* self.analyze_line(line, 0, context): the instance afterwards, the
\* LineAnalysis, and the ranking in its debug_scores
engine_analyze_line(self, line, context) ==
    LET a == analyze_line(line, 0, context)
    IN  [self |-> self,
         analysis |-> a,
         top |-> IF a.ok THEN debug_top(sorted_meter_paths(line_syllables(line), context))
                 ELSE << >>]

\* the lines of a session: an empty one, "the day", "summer all" (its two
\* ternary monometers score alike), one of 8 syllables (a candidate of the
\* context's meter) and one of 10 (the iambic tie-break applies)
SessionLines ==
    { [ntokens |-> 0, words |-> << >>],
      [ntokens |-> 2, words |-> <<Word("fn", <<FALSE>>), Word("other", <<TRUE>>)>>],
      [ntokens |-> 2, words |-> <<Word("other", <<TRUE, FALSE>>),
                                  Word("strong", <<TRUE>>)>>],
      [ntokens |-> 2, words |-> <<Word("other", <<TRUE, FALSE, TRUE, FALSE>>),
                                  Word("other", <<TRUE, FALSE, TRUE, FALSE>>)>>],
      [ntokens |-> 2, words |-> <<Word("other", <<TRUE, FALSE, TRUE, FALSE>>),
                                  Word("other", <<FALSE, TRUE, FALSE, TRUE, FALSE, FALSE>>)>>] }

SessionInit ==
    /\ pc = "session"
    /\ session = [given |-> TRUE, engine |-> NewEngine, history |-> << >>]
    /\ IdleEngine /\ IdleRefiner /\ IdleSublime /\ IdleCli /\ IdleMain /\ IdlePattern
    /\ IdleCache /\ IdleFrame /\ IdleSidecar /\ IdleAlign /\ IdleFinal

\* one more engine.analyze_line(line, 0, context) on the same engine
AnalyzeNext ==
    /\ pc = "session"
    /\ Len(session.history) < MaxSession
    /\ \E line \in SessionLines, context \in Contexts :
          \E r \in {engine_analyze_line(session.engine, line, context)} :
             session' = [session EXCEPT
                            !.engine = r.self,
                            !.history = Append(@, [line |-> line, context |-> context,
                                                   analysis |-> r.analysis,
                                                   top |-> r.top])]
    /\ UNCHANGED <<pc, engineVars, refinerVars, sublimeVars, cliVars, mainVars,
                   patternVars, cacheVars, frameVars, sidecar, align, finalVars>>

SessionNext == AnalyzeNext
SpecSession == SessionInit /\ [][SessionNext]_vars

(***************************************************************************)
(* Sidecar scenario (llm_sidecar.py): callers of one LLMSidecarManager,    *)
(* the processes it launched, and the clock. A block of ensure_running     *)
(* that runs under self._lock is one step; the wait for the first healthy  *)
(* answer runs outside the lock, one step per check. A process is starting,  *)
(* then healthy (it answers the health check), and may hang or exit. Port  *)
(* 0 stands for None, a returned port for the chat endpoint on that port.  *)
(***************************************************************************)
MaxCallers == 2     \* threads calling ensure_running
MaxEnsure == 3      \* ensure_running calls in all
MaxClock == 4       \* the clock's last tick
FixedPort == 1      \* a configured port > 0
DynPorts == {2, 3}  \* ports the system hands out for port 0

SidecarCfg(enabled, binary, template, port, cooldown, interval) ==
    [enabled |-> enabled, binary_path |-> binary, command_empty |-> ~template,
     port |-> port, cooldown |-> cooldown, startup_timeout |-> 1,
     healthcheck_interval |-> interval]

\* SidecarConfig values: time spans in ticks
SidecarConfigs ==
    { SidecarCfg(FALSE, TRUE, TRUE, FixedPort, 2, 2),
      SidecarCfg(TRUE, FALSE, TRUE, FixedPort, 2, 2),
      SidecarCfg(TRUE, TRUE, FALSE, FixedPort, 2, 2),
      SidecarCfg(TRUE, TRUE, TRUE, FixedPort, 2, 2),
      SidecarCfg(TRUE, TRUE, TRUE, FixedPort, 0, 0),
      SidecarCfg(TRUE, TRUE, TRUE, 0, 2, 1) }

IdleCaller ==
    [pc |-> "idle", now |-> 0, start_port |-> 0, deadline |-> 0, launched |-> 0,
     ret |-> 0, entry_proc |-> 0, cooling |-> FALSE, live_healthy |-> FALSE,
     seen_port |-> 0, failed_at |-> 0]

\* LLMSidecarManager.__init__, no caller yet
SidecarInit ==
    /\ pc = "sidecar"
    /\ \E config \in SidecarConfigs :
          sidecar = [given |-> TRUE, config |-> config,
                     process |-> 0, active_port |-> 0, cooldown_until |-> 0,
                     last_health_ok_at |-> 0, last_error |-> "",
                     procs |-> << >>, clock |-> 1, ensures |-> 0,
                     callers |-> [t \in 1..MaxCallers |-> IdleCaller]]
    /\ IdleEngine /\ IdleRefiner /\ IdleSublime /\ IdleCli /\ IdleMain /\ IdlePattern
    /\ IdleCache /\ IdleFrame /\ IdleSession /\ IdleAlign /\ IdleFinal

sidecarOthers ==
    <<pc, engineVars, refinerVars, sublimeVars, cliVars, mainVars, patternVars,
      cacheVars, frameVars, session, align, finalVars>>

\* _is_process_running_locked
is_process_running(m) ==
    m.process # 0 /\ m.procs[m.process].state # "exited" /\ m.active_port # 0

\* the managed process if it is alive and healthy, else 0
managed_healthy(m) ==
    IF is_process_running(m) /\ m.procs[m.process].state = "healthy"
    THEN m.process ELSE 0

\* _is_healthy_cached_locked
is_healthy_cached(m, t_now) ==
    m.last_health_ok_at > 0
    /\ t_now - m.last_health_ok_at < Max(0, m.config.healthcheck_interval)

\* self._health_checker(url, timeout) for the url of a port
health_checker(m, port) ==
    \E p \in 1..Len(m.procs) :
        m.procs[p].port = port /\ m.procs[p].state = "healthy"

\* _check_health_locked
check_health(m) == m.active_port # 0 /\ health_checker(m, m.active_port)

\* _terminate_locked
terminate(m) ==
    [m EXCEPT !.process = 0, !.active_port = 0, !.last_health_ok_at = 0,
              !.procs = IF m.process = 0 THEN @
                        ELSE [@ EXCEPT ![m.process].state = "exited"]]

\* _register_failure_locked
register_failure(m, error) ==
    [m EXCEPT !.last_error = error,
              !.cooldown_until = m.clock + Max(0, m.config.cooldown)]

\* the cooldown test left out
in_cooldown_never(m, t_now) == FALSE

\* ensure_running: now < self._cooldown_until
in_cooldown(m, t_now) == t_now < m.cooldown_until

\* ensure_running, the first block under the lock, for caller t whose now
\* was read before; port is what _resolve_port_locked yields and popen_ok
\* whether the popen factory returns a process
ensure_locked(m0, t, port, popen_ok) ==
    LET me == m0.callers[t]
        seen == [me EXCEPT !.cooling = m0.clock < m0.cooldown_until,
                           !.live_healthy = managed_healthy(m0) # 0,
                           !.entry_proc = IF managed_healthy(m0) = me.entry_proc
                                          THEN me.entry_proc ELSE 0,
                           !.seen_port = IF m0.process = 0 THEN 0
                                         ELSE m0.procs[m0.process].port]
        return(m, ret) == [m EXCEPT !.callers[t] = [seen EXCEPT !.pc = "done",
                                                                !.ret = ret]]
        m1 == IF is_process_running(m0) THEN terminate(m0) ELSE m0
        proc == [state |-> "starting", port |-> port]
    IN  IF in_cooldown(m0, me.now) THEN return(m0, 0)
        ELSE IF is_process_running(m0) /\ is_healthy_cached(m0, me.now)
        THEN return(m0, m0.active_port)
        ELSE IF is_process_running(m0) /\ check_health(m0)
        THEN return([m0 EXCEPT !.last_health_ok_at = me.now], m0.active_port)
        ELSE IF m0.config.command_empty
        THEN return(register_failure(m1,
                        "Sidecar command template produced empty command"), 0)
        ELSE IF ~popen_ok
        THEN return(register_failure(m1, "Failed to start sidecar"), 0)
        ELSE [m1 EXCEPT !.procs = Append(@, proc),
                        !.process = Len(m1.procs) + 1,
                        !.active_port = port,
                        !.last_health_ok_at = 0,
                        !.callers[t] = [seen EXCEPT
                                           !.pc = "waiting",
                                           !.start_port = port,
                                           !.launched = Len(m1.procs) + 1,
                                           !.deadline = m1.clock
                                                        + m1.config.startup_timeout]]

\* the ports _resolve_port_locked may yield
resolve_port(m) ==
    IF m.config.port > 0 THEN {m.config.port}
    ELSE {q \in DynPorts : \A p \in 1..Len(m.procs) :
                              m.procs[p].state # "exited" => m.procs[p].port # q}

\* a caller enters ensure_running: the tests before the lock, and now; what
\* it finds managed at that moment is kept for the record
Ensure(t) ==
    /\ pc = "sidecar"
    /\ sidecar.callers[t].pc \in {"idle", "done"}
    /\ sidecar.ensures < MaxEnsure
    /\ LET m == [sidecar EXCEPT !.ensures = @ + 1]
       IN  sidecar' =
             IF ~m.config.enabled
             THEN [m EXCEPT !.callers[t] = [IdleCaller EXCEPT !.pc = "done"]]
             ELSE IF ~m.config.binary_path
             THEN [m EXCEPT !.callers[t] = [IdleCaller EXCEPT !.pc = "done"],
                            !.last_error = "Sidecar enabled but binary path is empty"]
             ELSE [m EXCEPT !.callers[t] =
                              [IdleCaller EXCEPT !.pc = "entered",
                                                 !.now = m.clock,
                                                 !.entry_proc = managed_healthy(m)]]
    /\ UNCHANGED sidecarOthers

\* with self._lock: cooldown, reuse, or launch
EnsureLocked(t) ==
    /\ pc = "sidecar"
    /\ sidecar.callers[t].pc = "entered"
    /\ \E port \in resolve_port(sidecar), popen_ok \in BOOLEAN :
          sidecar' = ensure_locked(sidecar, t, port, popen_ok)
    /\ UNCHANGED sidecarOthers

\* _wait_until_healthy: the loop test and the look at self._process
WaitLoop(t) ==
    /\ pc = "sidecar"
    /\ sidecar.callers[t].pc = "waiting"
    /\ sidecar' =
         IF sidecar.clock >= sidecar.callers[t].deadline
         THEN [sidecar EXCEPT !.callers[t].pc = "failing"]
         ELSE IF sidecar.process = 0 \/ sidecar.procs[sidecar.process].state = "exited"
         THEN [sidecar EXCEPT !.callers[t].pc = "failing"]
         ELSE [sidecar EXCEPT !.callers[t].pc = "probing"]
    /\ UNCHANGED sidecarOthers

\* _wait_until_healthy: self._health_checker(url, 0.25), then sleep
WaitProbe(t) ==
    /\ pc = "sidecar"
    /\ sidecar.callers[t].pc = "probing"
    /\ sidecar' =
         IF health_checker(sidecar, sidecar.callers[t].start_port)
         THEN [sidecar EXCEPT !.callers[t].pc = "succeeding"]
         ELSE [sidecar EXCEPT !.callers[t].pc = "sleeping"]
    /\ UNCHANGED sidecarOthers

\* ensure_running after a healthy answer
Started(t) ==
    /\ pc = "sidecar"
    /\ sidecar.callers[t].pc = "succeeding"
    /\ sidecar' = [sidecar EXCEPT !.last_error = "",
                                  !.last_health_ok_at = sidecar.clock,
                                  !.callers[t].pc = "done",
                                  !.callers[t].ret = sidecar.callers[t].start_port]
    /\ UNCHANGED sidecarOthers

\* ensure_running after the wait gave up
StartFailed(t) ==
    /\ pc = "sidecar"
    /\ sidecar.callers[t].pc = "failing"
    /\ sidecar' = [terminate(register_failure(sidecar,
                      "Sidecar failed health check before startup timeout"))
                     EXCEPT !.callers[t].pc = "done",
                            !.callers[t].ret = 0,
                            !.callers[t].failed_at = sidecar.clock]
    /\ UNCHANGED sidecarOthers

\* a launched process starts answering, stops answering, or exits by itself
ProcessEvent ==
    /\ pc = "sidecar"
    /\ \E p \in 1..Len(sidecar.procs) :
          \E next \in CASE sidecar.procs[p].state = "starting" -> {"healthy", "exited"}
                         [] sidecar.procs[p].state = "healthy" -> {"hung", "exited"}
                         [] sidecar.procs[p].state = "hung" -> {"exited"}
                         [] OTHER -> {} :
             sidecar' = [sidecar EXCEPT !.procs[p].state = next]
    /\ UNCHANGED sidecarOthers

\* time passes; a sleeping caller wakes up
SidecarTick ==
    /\ pc = "sidecar"
    /\ sidecar.clock < MaxClock
    /\ sidecar' = [sidecar EXCEPT
                      !.clock = @ + 1,
                      !.callers = [t \in 1..MaxCallers |->
                                      IF sidecar.callers[t].pc = "sleeping"
                                      THEN [sidecar.callers[t] EXCEPT !.pc = "waiting"]
                                      ELSE sidecar.callers[t]]]
    /\ UNCHANGED sidecarOthers

SidecarNext ==
    \/ \E t \in 1..MaxCallers :
          Ensure(t) \/ EnsureLocked(t) \/ WaitLoop(t) \/ WaitProbe(t)
          \/ Started(t) \/ StartFailed(t)
    \/ ProcessEvent
    \/ SidecarTick
SpecSidecar == SidecarInit /\ [][SidecarNext]_vars

(***************************************************************************)
(* Aligner scenario: _viterbi_for_meter on a list of syllables and one     *)
(* meter, called directly as the tests do (any meter, also one whose       *)
(* length is far from the line's), then the ranking of the line's          *)
(* candidate meters by _best_meter_for_ambiguous_syllables.                *)
(***************************************************************************)
MaxSyllables == 5   \* syllables of an aligned line
MaxFeet == 2        \* feet of the meter it is aligned with

Unit(options) ==
    [token_index |-> 0, options |-> options, default_stress |-> DefaultStress(options)]

\* the _SyllableUnit values _options_for_syllable gives rise to: a function
\* word, a strong monosyllable, and the two syllables of a longer word
SyllableKinds ==
    { Unit(options_for_syllable("fn", TRUE, FALSE)),
      Unit(options_for_syllable("strong", TRUE, TRUE)),
      Unit(options_for_syllable("other", FALSE, TRUE)),
      Unit(options_for_syllable("other", FALSE, FALSE)) }

\* _fixed_syllables of the tests: the other stress costs 999
fixed_syllables(stress_pattern) ==
    [i \in 1..Len(stress_pattern) |->
        [token_index |-> 0,
         options |-> <<Opt(stress_pattern[i], 0),
                       Opt(IF stress_pattern[i] = "U" THEN "S" ELSE "U", 99900)>>,
         default_stress |-> stress_pattern[i]]]

AlignInputs ==
    [syllables : UNION {[1..k -> SyllableKinds] : k \in 1..MaxSyllables},
     foot_name : FootNames, feet : 1..MaxFeet]
    \cup [syllables : {fixed_syllables(<<"U", "S", "U", "S", "U", "S", "U", "S", "U">>)},
          foot_name : FootNames, feet : {4, 5}]
    \cup [syllables : {fixed_syllables(<<"U", "S", "U", "S", "U", "U", "S", "U", "S", "U", "S">>)},
          foot_name : {"iambic", "trochaic"}, feet : {5, 6}]

AlignInit ==
    /\ pc = "align"
    /\ \E input \in AlignInputs :
          align = [given |-> TRUE, syllables |-> input.syllables,
                   foot_name |-> input.foot_name, feet |-> input.feet,
                   result |-> [pat |-> << >>, cost |-> 0],
                   mismatch |-> << >>, inserts |-> {}, paths |-> << >>,
                   best |-> << >>]
    /\ IdleEngine /\ IdleRefiner /\ IdleSublime /\ IdleCli /\ IdleMain /\ IdlePattern
    /\ IdleCache /\ IdleFrame /\ IdleSession /\ IdleSidecar /\ IdleFinal

alignOthers ==
    <<engineVars, refinerVars, sublimeVars, cliVars, mainVars, patternVars,
      cacheVars, frameVars, session, sidecar, finalVars>>

\* the cells (i, j) out of which _viterbi_for_meter relaxes an Insert: those
\* it reaches (dp[i][j] < inf) with the Insert enabled
insert_cells(syllables, foot, feet) ==
    LET n == Len(syllables)
        template == template_for_meter(foot, feet)
        m == Len(template)
    IN  IF n - m \notin {0 - 1, 0, 1} THEN {}
        ELSE {c \in (0..n) \X (0..(m - 1)) :
                 /\ n - m < 0
                 /\ insert_enabled(foot, n, c[1], c[2])
                 /\ ViterbiCell(syllables, foot, template, c[1], c[2]).cost < INF}

\* engine._viterbi_for_meter(syllables, foot_name, feet); the mismatch cost
\* of each template position and the cells an Insert was relaxed from are
\* kept beside the result
AlignMeter ==
    /\ pc = "align"
    /\ \E v \in {viterbi_for_meter(align.syllables, align.foot_name, align.feet)},
          cells \in {insert_cells(align.syllables, align.foot_name, align.feet)} :
          align' = [align EXCEPT
                       !.result = v,
                       !.inserts = cells,
                       !.mismatch =
                           [j \in 1..Len(template_for_meter(align.foot_name, align.feet))
                               |-> mismatch_cost_at(align.foot_name, j - 1)]]
    /\ pc' = "aligned"
    /\ UNCHANGED alignOthers

\* engine._best_meter_for_ambiguous_syllables(syllables): every candidate's
\* _MeterPath in rank order, and the meter reported
RankMeters ==
    /\ pc = "aligned"
    /\ \E paths \in {sorted_meter_paths(align.syllables, NoContext)},
          best \in {best_meter_for_ambiguous_syllables(align.syllables, NoContext)} :
          align' = [align EXCEPT !.paths = paths, !.best = best.meter_name]
    /\ pc' = "ranked"
    /\ UNCHANGED alignOthers

AlignNext == AlignMeter \/ RankMeters
SpecAlign == AlignInit /\ [][AlignNext]_vars

(***************************************************************************)
(* Ranking scenario: the meter the engine reports for a line, by           *)
(* analyze_line under a poem-level context, or for a stress pattern, by    *)
(* best_meter_for_stress_pattern; then a line analysed without context is  *)
(* analysed again with the meter it received as its context.  rank keeps   *)
(* the ranked candidates beside what is reported.                          *)
(***************************************************************************)
MaxFlips == 2       \* adjacent symbols of a line that depart from the foot it repeats
MaxRankLen == 13    \* syllables of the longest line ranked

\* the first n symbols of a foot repeated
foot_line(foot, n) ==
    [i \in 1..n |-> FOOT_TEMPLATES(foot)[((i - 1) % Len(FOOT_TEMPLATES(foot))) + 1]]

\* every pattern of up to 3 syllables, and the lines of 9 to MaxRankLen
\* syllables that repeat a foot but for a run of at most MaxFlips symbols
RankPatterns ==
    UNION {[1..n -> {"U", "S"}] : n \in 1..3}
    \cup { [i \in 1..c[2] |->
              IF c[3] <= i /\ i < c[3] + c[4]
              THEN (IF foot_line(c[1], c[2])[i] = "U" THEN "S" ELSE "U")
              ELSE foot_line(c[1], c[2])[i]] :
             c \in {d \in FootNames \X (9..MaxRankLen) \X (1..MaxRankLen) \X (0..MaxFlips) :
                      d[3] + d[4] - 1 <= d[2]} }

\* a line of monosyllables (function words and strong words), and one word
\* of as many syllables, with the pattern's lexical stresses
mono_line(p) ==
    [ntokens |-> Len(p),
     words |-> [i \in 1..Len(p) |->
                  IF p[i] = "S" THEN Word("strong", <<TRUE>>) ELSE Word("fn", <<FALSE>>)]]
poly_line(p) ==
    [ntokens |-> 1, words |-> <<Word("other", [i \in 1..Len(p) |-> p[i] = "S"])>>]

RankContexts ==
    { NoContext,
      Context(<<"iambic", "pentameter">>, Num(UNIT)),
      Context(<<"trochaic", "pentameter">>, Num(UNIT \div 2)),
      Context(<<"dactylic", "tetrameter">>, Num(2 * UNIT)),
      Context(<<"iambs">>, Num(UNIT)),
      Context(<< >>, Num(UNIT)),
      Context(<<"iambic", "pentameter">>, NotNumber),
      Context(<<"iambic", "hexameter">>, Num(0 - UNIT)) }

ContextStrengths == {Num(UNIT \div 4), Num(UNIT), NotNumber}

RankInputs ==
    [kind : {"line"}, line : {mono_line(p) : p \in RankPatterns}
                             \cup {poly_line(p) : p \in RankPatterns},
     context : RankContexts, stress_pattern : {<< >>}]
    \cup [kind : {"pattern"}, line : {[ntokens |-> 0, words |-> << >>]},
          context : {NoContext}, stress_pattern : RankPatterns]

RankInit ==
    /\ pc = "rank"
    /\ \E input \in RankInputs :
          rank = [given |-> TRUE, kind |-> input.kind, line |-> input.line,
                  context |-> input.context, stress_pattern |-> input.stress_pattern,
                  ranked |-> << >>, reported |-> NoAnalysis, again |-> NoAnalysis]
    /\ IdleEngine /\ IdleRefiner /\ IdleSublime /\ IdleCli /\ IdleMain /\ IdlePattern
    /\ IdleCache /\ IdleFrame /\ IdleSession /\ IdleSidecar /\ IdleAlign /\ IdleScanner
    /\ IdleCanon

rankOthers ==
    <<engineVars, refinerVars, sublimeVars, cliVars, mainVars, patternVars,
      cacheVars, frameVars, session, sidecar, align, scanner, canon>>

\* one candidate as both rankings hold it: its meter, its score, and the
\* context bonus in it
ranked_path(p) ==
    [foot_name |-> p.foot_name, feet |-> p.feet, score |-> p.adjusted_score,
     base_score |-> p.base_score, context_bonus |-> p.context_bonus,
     pattern |-> p.pattern]
ranked_candidate(c) ==
    [foot_name |-> c.foot_name, feet |-> c.feet, score |-> c.score,
     base_score |-> c.score, context_bonus |-> 0, pattern |-> << >>]

\* engine.analyze_line(line, 0, context); meter_paths as sorted is kept
RankLine ==
    /\ pc = "rank" /\ rank.kind = "line"
    /\ \E a \in {analyze_line(rank.line, 0, rank.context)},
          paths \in {sorted_meter_paths(line_syllables(rank.line), rank.context)} :
          rank' = [rank EXCEPT !.reported = a,
                               !.ranked = [k \in 1..Len(paths) |-> ranked_path(paths[k])]]
    /\ pc' = "ranked"
    /\ UNCHANGED rankOthers

\* engine.best_meter_for_stress_pattern(stress_pattern); rescored is kept
RankPattern ==
    /\ pc = "rank" /\ rank.kind = "pattern"
    /\ \E best \in {best_meter_for_stress_pattern(rank.stress_pattern)},
          rescored \in {rescored_candidates(stress_symbols(rank.stress_pattern),
                            meter_candidates(stress_symbols(rank.stress_pattern)))} :
          rank' = [rank EXCEPT
                      !.reported = [ok |-> TRUE, meter_name |-> best.meter_name,
                                    confidence |-> best.score, margin |-> best.margin],
                      !.ranked = [k \in 1..Len(rescored) |-> ranked_candidate(rescored[k])]]
    /\ pc' = "ranked"
    /\ UNCHANGED rankOthers

\* engine.analyze_line(line, 0, {"dominant_meter": baseline.meter_name,
\* "dominant_strength": strength})
Reanalyze ==
    /\ pc = "ranked" /\ rank.kind = "line" /\ rank.reported.ok
    /\ ~rank.context.given
    /\ \E strength \in ContextStrengths :
          \E a \in {analyze_line(rank.line, 0,
                                 Context(rank.reported.meter_name, strength))} :
             rank' = [rank EXCEPT !.again = a]
    /\ pc' = "boosted"
    /\ UNCHANGED rankOthers

RankNext == RankLine \/ RankPattern \/ Reanalyze
SpecRank == RankInit /\ [][RankNext]_vars

(***************************************************************************)
(* Scheduled scans of one view (src/poetry_meter.py).  Sublime Text runs   *)
(* commands and set_timeout callbacks on its UI thread and the *_async     *)
(* handlers and set_timeout_async callbacks on one async thread; each      *)
(* thread runs one callback at a time, and the two run beside each other.  *)
(* scanner keeps the ViewState (generation, enabled, analyses), the scans  *)
(* scheduled so far in scheduling order, the callbacks queued for the UI   *)
(* thread, the scan the async thread is computing, and where each thread   *)
(* stands inside _schedule_scan.  state.analyses is kept as the number of  *)
(* the scan that produced it (0: empty).                                   *)
(***************************************************************************)
MaxScans == 3
MaxToggles == 2

DEBOUNCE_MS == 50

UiThread == "ui"
AsyncThread == "async"

\* a thread outside _schedule_scan
Outside == [at |-> "idle", value |-> 0, delay |-> 0]

ScanInit ==
    /\ pc = "scan"
    /\ scanner = [given |-> TRUE, generation |-> 0, enabled |-> TRUE, analyses |-> 0,
                  scans |-> << >>, ui_queue |-> << >>, running |-> 0, toggles |-> 0,
                  thread |-> [t \in {UiThread, AsyncThread} |-> Outside]]
    /\ IdleEngine /\ IdleRefiner /\ IdleSublime /\ IdleCli /\ IdleMain /\ IdlePattern
    /\ IdleCache /\ IdleFrame /\ IdleSession /\ IdleSidecar /\ IdleAlign /\ IdleRank
    /\ IdleCanon

scanOthers ==
    <<engineVars, refinerVars, sublimeVars, cliVars, mainVars, patternVars,
      cacheVars, frameVars, session, sidecar, align, rank, canon>>

\* the thread is free to take its next callback
Free(t) ==
    /\ scanner.thread[t].at = "idle"
    /\ t = AsyncThread => scanner.running = 0

\* schedules started, finished or not
Scheduling ==
    Len(scanner.scans)
    + Cardinality({t \in {UiThread, AsyncThread} : scanner.thread[t].at # "idle"})

\* _schedule_scan up to the read of self.generation in "self.generation += 1":
\* a view that is not enabled schedules nothing
schedule_scan(sc, t, delay) ==
    IF ~sc.enabled THEN sc
    ELSE [sc EXCEPT !.thread[t] = [at |-> "loaded", value |-> sc.generation,
                                   delay |-> delay]]

\* on_modified_async (debounce_ms), on_load_async and the background rescan
\* tick (debounce_override=0) call _schedule_scan on the async thread
AsyncSchedule ==
    /\ pc = "scan"
    /\ Free(AsyncThread)
    /\ scanner.enabled
    /\ Scheduling < MaxScans
    /\ \E delay \in {0, DEBOUNCE_MS} :
          scanner' = schedule_scan(scanner, AsyncThread, delay)
    /\ UNCHANGED <<pc, scanOthers>>

\* PoetryMeterRescanBufferCommand.run on the UI thread
RescanBuffer ==
    /\ pc = "scan"
    /\ Free(UiThread)
    /\ scanner.enabled
    /\ Scheduling < MaxScans
    /\ scanner' = schedule_scan(scanner, UiThread, 0)
    /\ UNCHANGED <<pc, scanOthers>>

\* the store of "self.generation += 1"
NextGenerationStore(t) ==
    /\ pc = "scan"
    /\ scanner.thread[t].at = "loaded"
    /\ scanner' = [scanner EXCEPT !.generation = scanner.thread[t].value + 1,
                                  !.thread[t].at = "stored"]
    /\ UNCHANGED <<pc, scanOthers>>

\* "return self.generation", the closure run() made with that generation and
\* sublime.set_timeout_async(run, max(0, debounce_ms))
SetTimeoutAsync(t) ==
    /\ pc = "scan"
    /\ scanner.thread[t].at = "stored"
    /\ scanner' = [scanner EXCEPT
          !.scans = Append(@, [generation |-> scanner.generation,
                               delay |-> scanner.thread[t].delay, at |-> "timer"]),
          !.thread[t] = Outside]
    /\ UNCHANGED <<pc, scanOthers>>

\* PoetryMeterToggleLiveCommand.run: enabling schedules a full scan,
\* disabling clears the annotations
ToggleLive ==
    /\ pc = "scan"
    /\ Free(UiThread)
    /\ scanner.toggles < MaxToggles
    /\ scanner.enabled \/ Scheduling < MaxScans
    /\ LET toggled == [scanner EXCEPT !.enabled = ~scanner.enabled,
                                      !.toggles = @ + 1]
       IN  scanner' = IF toggled.enabled THEN schedule_scan(toggled, UiThread, 0)
                      ELSE [toggled EXCEPT !.analyses = 0]
    /\ UNCHANGED <<pc, scanOthers>>

\* PoetryMeterClearAnnotationsCommand.run: _clear_annotations
ClearAnnotations ==
    /\ pc = "scan"
    /\ Free(UiThread)
    /\ scanner.analyses # 0
    /\ scanner' = [scanner EXCEPT !.analyses = 0]
    /\ UNCHANGED <<pc, scanOthers>>

\* the timers that can fire next: a timer set later fires before one set
\* earlier only if its delay is shorter
Due ==
    {s \in DOMAIN scanner.scans :
        /\ scanner.scans[s].at = "timer"
        /\ \A e \in 1..(s - 1) :
              scanner.scans[e].at = "timer"
              => scanner.scans[s].delay < scanner.scans[e].delay}

\* run() and the head of _scan_and_apply on the async thread: a scan whose
\* generation is not the view's, or whose view is not enabled, returns at once
RunScan ==
    /\ pc = "scan"
    /\ Free(AsyncThread)
    /\ \E s \in Due :
          IF scanner.scans[s].generation # scanner.generation \/ ~scanner.enabled
          THEN scanner' = [scanner EXCEPT !.scans[s].at = "dropped"]
          ELSE scanner' = [scanner EXCEPT !.scans[s].at = "scanning", !.running = s]
    /\ UNCHANGED <<pc, scanOthers>>

\* the rest of _scan_and_apply: the analyses are ready and
\* sublime.set_timeout(apply_to_ui, 0) queues them for the UI thread
FinishScan ==
    /\ pc = "scan"
    /\ scanner.running # 0
    /\ scanner' = [scanner EXCEPT !.scans[scanner.running].at = "ready",
                                  !.ui_queue = Append(@, scanner.running),
                                  !.running = 0]
    /\ UNCHANGED <<pc, scanOthers>>

\* apply_to_ui on the UI thread
ApplyToUi ==
    /\ pc = "scan"
    /\ Free(UiThread)
    /\ scanner.ui_queue # << >>
    /\ LET s == Head(scanner.ui_queue)
           popped == [scanner EXCEPT !.ui_queue = Tail(@)]
       IN  IF scanner.scans[s].generation # scanner.generation \/ ~scanner.enabled
           THEN scanner' = [popped EXCEPT !.scans[s].at = "dropped"]
           ELSE scanner' = [popped EXCEPT !.scans[s].at = "applied", !.analyses = s]
    /\ UNCHANGED <<pc, scanOthers>>

ScanNext ==
    \/ AsyncSchedule
    \/ RescanBuffer
    \/ \E t \in {UiThread, AsyncThread} : NextGenerationStore(t)
    \/ \E t \in {UiThread, AsyncThread} : SetTimeoutAsync(t)
    \/ ToggleLive
    \/ ClearAnnotations
    \/ RunScan
    \/ FinishScan
    \/ ApplyToUi

SpecScan == ScanInit /\ [][ScanNext]_vars

(***************************************************************************)
(* Meter names through LLMRefiner._canonical_meter_name, called alone: a   *)
(* raw name, the syllable count of the baseline it is canonicalised for,   *)
(* the result, and the result canonicalised again for the same baseline.   *)
(* A name is its words; padded says that the text has blanks around it or  *)
(* more than one blank between its words.                                  *)
(***************************************************************************)
MaxCanonSyllables == 13

CanonNames ==
    {<<foot, line>> : foot \in FootNames, line \in LineNames}
    \cup { <<"iambs">>, <<"trochees">>, <<"iambic">>, <<"dactylic", "2-foot">>,
           <<"iambic", "3-foot">>, <<"pentameter", "anapests">>, <<"free", "verse">>,
           <<"loose", "iambic", "tetrameter">>, << >> }

\* a baseline of n syllables in one token (none for 0)
canon_base(n) == [token_patterns |-> IF n = 0 THEN << >> ELSE <<Repeat("U", n)>>]

\* s = " ".join((raw or "").strip().lower().split()), then the name built
\* from it: the text returned has single blanks only
canonical_text(raw, base) ==
    [words |-> canonical_meter_name(raw.words, base), padded |-> FALSE]

NoName == [words |-> << >>, padded |-> FALSE]

CanonInit ==
    /\ pc = "canon"
    /\ \E words \in CanonNames, padded \in BOOLEAN, n \in 0..MaxCanonSyllables :
          canon = [given |-> TRUE, raw |-> [words |-> words, padded |-> padded],
                   syllables |-> n, name |-> NoName, again |-> NoName]
    /\ IdleEngine /\ IdleRefiner /\ IdleSublime /\ IdleCli /\ IdleMain /\ IdlePattern
    /\ IdleCache /\ IdleFrame /\ IdleSession /\ IdleSidecar /\ IdleAlign /\ IdleRank
    /\ IdleScanner

canonOthers ==
    <<engineVars, refinerVars, sublimeVars, cliVars, mainVars, patternVars,
      cacheVars, frameVars, session, sidecar, align, rank, scanner>>

\* self._canonical_meter_name(meter_name_raw, base)
Canonicalize ==
    /\ pc = "canon"
    /\ canon' = [canon EXCEPT !.name = canonical_text(canon.raw, canon_base(canon.syllables))]
    /\ pc' = "canonical"
    /\ UNCHANGED canonOthers

\* the result canonicalised once more for the same baseline
Recanonicalize ==
    /\ pc = "canonical"
    /\ canon' = [canon EXCEPT !.again = canonical_text(canon.name, canon_base(canon.syllables))]
    /\ pc' = "again"
    /\ UNCHANGED canonOthers

CanonNext == Canonicalize \/ Recanonicalize
SpecCanon == CanonInit /\ [][CanonNext]_vars

(***************************************************************************)
(* All components.                                                         *)
(***************************************************************************)
\* the engine, the refiner, the response parser and the arbitration of one
\* line, side by side; the rules, scan, cache and rescoring scenarios each
\* run under their own specification
Init == EngineInit \/ RefinerInit \/ SublimeInit \/ CliInit
Next == AnalyzeLine \/ RefineLines \/ RetryLine \/ ParseResponse \/ ScanLine
Spec == Init /\ [][Next]_vars

(***************************************************************************)
(* Properties.                                                             *)
(***************************************************************************)

\* C1: every LineAnalysis returned by analyze_line has one stress symbol per
\* syllable: stress_pattern is the concatenation of token_patterns, and its
\* length, the summed lengths of token_patterns and the number of
\* syllable_positions are all equal.
C1_LengthInvariant ==
    analysis.ok =>
        /\ analysis.stress_pattern = Flatten(analysis.token_patterns)
        /\ Len(analysis.stress_pattern) = SumLen(analysis.token_patterns)
        /\ Len(analysis.stress_pattern) = analysis.n_syllable_positions

\* syllable counts that no (foot, feet) template with feet in 1..6 can take
NoCandidateCounts == {n \in Nat : n = 16 \/ n >= 19}

\* C6 as stated: every LineAnalysis returned by analyze_line, whatever its
\* syllable count, carries a canonical meter name and a foot count in 1..6.
C6_AlwaysCanonical ==
    analysis.ok =>
        /\ IsCanonicalName(analysis.meter_name)
        /\ analysis.feet_count \in 1..6

\* C6 amended: a LineAnalysis whose syllable count has a candidate meter
\* (1..15, 17, 18) carries a canonical meter name and the foot count in 1..6
\* that the name states; for the other counts (16 and 19 up) the meter name
\* is empty and the foot count is max(1, round(len(stress_pattern) / 2)).
C6_CanonicalWhenCandidate ==
    analysis.ok =>
        IF analysis.n_syllable_positions \in NoCandidateCounts
        THEN /\ analysis.meter_name = << >>
             /\ analysis.feet_count = Max(1, RoundHalf(Len(analysis.stress_pattern)))
        ELSE /\ IsCanonicalName(analysis.meter_name)
             /\ analysis.feet_count \in 1..6
             /\ LINE_NAME_BY_FEET[analysis.feet_count] = analysis.meter_name[2]

\* an 18-syllable line, past the gap at 16, scanned to a canonical meter
C6_Witness ==
    /\ analysis.ok
    /\ analysis.n_syllable_positions = 18
    /\ IsCanonicalName(analysis.meter_name)

\* the entries of the batch response that are about line i
EntriesFor(i) ==
    {k \in 1..Len(resp.results) : item_line(resp.results[k], DOMAIN batch) = i}

InUnit(x) == 0 <= x /\ x <= UNIT

\* C3: every confidence the system emits lies in [0,1]: that of a
\* LineAnalysis, that of every accepted LLMRefinement (also when the LLM
\* reports a negative or greater-than-1 confidence) and that of a scan result
\* after override arbitration.
C3_ConfidenceBound ==
    /\ analysis.ok => InUnit(analysis.confidence)
    /\ \A i \in DOMAIN out : out[i].ok => InUnit(out[i].confidence)
    /\ parsed.ok => InUnit(parsed.confidence)
    /\ scan.ok => InUnit(scan.confidence)

\* an entry reporting confidence 9.0 was accepted with confidence 1.0
C3_Witness ==
    /\ pc = "done"
    /\ \E i \in DOMAIN out :
          /\ out[i].ok
          /\ out[i].confidence = UNIT
          /\ retry[i] = "none"
          /\ \E k \in EntriesFor(i) : resp.results[k].confidence = Num(9 * UNIT)

\* the evidence score behind each override reason
Evidence(reason, c) ==
    CASE reason = "pattern_rescore" -> c.pattern_best_score
      [] reason = "iambic_guard" -> c.pattern_best_score
      [] reason = "baseline_guard" -> c.baseline_conf
      [] reason = "dominant_smoothing" ->
            score_stress_pattern_for_meter(c.stress_pattern, c.dominant_meter).score

RuleOrder == <<"pattern_rescore", "iambic_guard", "baseline_guard", "dominant_smoothing">>

\* C4: whenever an override rule fires, the confidence it returns is
\* min(input confidence, evidence score of that rule), so never above the
\* input confidence; and a scan result's confidence is never above the
\* confidence of the refinement it was built from.
C4_OverrideMonotone ==
    /\ octx.given =>
          \A k \in 1..Len(RuleOrder) :
             LET result == apply_override(RuleOrder[k], octx.ctx)
             IN  result.hit =>
                    /\ result.reason = RuleOrder[k]
                    /\ result.conf = Min(octx.ctx.conf, Evidence(RuleOrder[k], octx.ctx))
                    /\ result.conf <= octx.ctx.conf
    /\ scan.ok =>
          /\ scan.confidence <= octx.ctx.conf
          /\ scan.meter_overridden =>
                scan.confidence
                   = Min(octx.ctx.conf, Evidence(scan.override_reason, octx.ctx))

\* an override lowered the confidence to its evidence score
C4_Witness ==
    /\ scan.ok
    /\ scan.meter_overridden
    /\ scan.override_reason = "baseline_guard"
    /\ scan.confidence < octx.ctx.conf

\* the rules that would override this context, by position in RuleOrder
Hits(c) == {k \in 1..Len(RuleOrder) : apply_override(RuleOrder[k], c).hit}
FirstHit(c) == CHOOSE k \in Hits(c) : \A q \in Hits(c) : k <= q

\* C5: the rules are tried in the order pattern_rescore, iambic_guard,
\* baseline_guard, dominant_smoothing, and the first that returns an override
\* alone determines the line's meter, confidence and reason; when none does,
\* the refinement's meter and confidence stand.
C5_FirstMatchWins ==
    scan.ok =>
        IF Hits(octx.ctx) = {}
        THEN /\ ~scan.meter_overridden
             /\ scan.override_reason = ""
             /\ scan.meter_name = octx.ctx.meter_name
             /\ scan.confidence = octx.ctx.conf
        ELSE LET first == apply_override(RuleOrder[FirstHit(octx.ctx)], octx.ctx)
             IN  /\ scan.meter_overridden
                 /\ scan.override_reason = RuleOrder[FirstHit(octx.ctx)]
                 /\ scan.meter_name = first.meter_name
                 /\ scan.confidence = first.conf

\* two rules would override with different meters; the earlier one decided
C5_Witness ==
    /\ scan.ok
    /\ \E k, q \in Hits(octx.ctx) :
          /\ k < q
          /\ k = FirstHit(octx.ctx)
          /\ apply_override(RuleOrder[k], octx.ctx).meter_name
                # apply_override(RuleOrder[q], octx.ctx).meter_name
          /\ scan.override_reason = RuleOrder[k]

\* token patterns tp fit baseline b: one U/S string per token, each as long
\* as the token's baseline pattern
FitsBaseline(tp, b) ==
    /\ Len(tp) = b.ntokens
    /\ \A j \in 1..Len(tp) :
          /\ tp[j] # << >>
          /\ IsStress(tp[j])
          /\ j <= Len(b.token_patterns) /\ Len(tp[j]) = Len(b.token_patterns[j])

\* C2: every LLMRefinement accepted by refine_lines or by the Sublime
\* _parse_response has one U/S sub-pattern per baseline token, each as long
\* as that token's syllable count in the baseline, so that the refined stress
\* pattern is their concatenation and has the line's syllable count.
C2_RefinedLengths ==
    /\ \A i \in DOMAIN out :
          out[i].ok =>
             /\ FitsBaseline(out[i].token_patterns, batch[i])
             /\ SumLen(out[i].token_patterns) = batch[i].n_syllable_positions
    /\ parsed.ok =>
          /\ FitsBaseline(parsed.token_patterns, payload.baseline)
          /\ parsed.stress_pattern = Flatten(parsed.token_patterns)
          /\ Len(parsed.stress_pattern) = SumLen(payload.baseline.token_patterns)

\* the meter name an entry states: meter_name, else final_meter
StatedMeter(item) == Or(Or(item.meter_name, item.final_meter), Str(<< >>))
StatesCanonical(item) ==
    StatedMeter(item).t = "str" /\ IsCanonicalName(StatedMeter(item).v)

\* C7: the validators leave out every entry whose meter name is not
\* canonical, substituting nothing for it, so every accepted LLMRefinement
\* carries a canonical meter name.
C7_NonCanonicalRejected ==
    /\ \A i \in DOMAIN out : out[i].ok => IsCanonicalName(out[i].meter_name)
    /\ parsed.ok => IsCanonicalName(parsed.meter_name)
    /\ \A i \in DOMAIN out :
          (/\ retry[i] = "none"
           /\ \E k \in EntriesFor(i) : ~StatesCanonical(resp.results[k]))
          => ~out[i].ok

\* what the batch response alone validates, and the lines it leaves out
BatchValidated == validate_results(resp.results, batch, NoneAccepted(batch))
FailedIn(validated) == {i \in DOMAIN batch : ~validated[i].ok}
Retried == {i \in DOMAIN batch : retry[i] # "none"}
Missing == {missing[k] : k \in 1..Len(missing)}

UnparsedKinds ==
    {"not_json", "json_not_object", "missing_choices", "missing_message",
     "missing_content", "content_not_json_object", "missing_results"}

\* C8: refine_lines returns normally only with a non-empty map of validated
\* lines; when the response cannot be parsed down to a results list, or no
\* entry validates, it raises llm_invalid_response, records it in last_error,
\* writes a dump of the request and the raw response, and returns nothing.
C8_BatchAcceptance ==
    (pc = "done" /\ batch # << >> /\ endpoint = "http://") =>
        /\ raised = None => Accepted(out) # {}
        /\ (\/ resp.kind \in UnparsedKinds
            \/ resp.kind = "results" /\ FailedIn(BatchValidated) = DOMAIN batch)
           => /\ raised = "llm_invalid_response"
              /\ last_error = "llm_invalid_response"
              /\ dump.written
              /\ dump.request = DOMAIN batch
              /\ dump.raw = resp
              /\ Accepted(out) = {}

\* the entry is valid but for the length of its token_stress_patterns: a
\* non-empty list of U/S strings with too few or too many sub-patterns, or
\* with a sub-pattern of the wrong number of symbols
WrongLengthOnly(item, b) ==
    /\ item.isdict
    /\ item.line_no = Num(b.line_no)
    /\ StatedMeter(item).t = "str" /\ StatedMeter(item).v # << >>
    /\ Or(item.confidence, item.meter_confidence).t = "num"
    /\ item.token_stress_patterns.t = "list"
    /\ LET tsp == item.token_stress_patterns.v
       IN  /\ tsp # << >>
           /\ \A k \in 1..Len(tsp) :
                 tsp[k].t = "str" /\ tsp[k].v # << >> /\ IsStress(tsp[k].v)
           /\ \/ Len(tsp) # b.ntokens
              \/ \E k \in 1..Min(Len(tsp), b.ntokens) :
                    Len(tsp[k].v) # Len(b.token_patterns[k])

EntryPerLine ==
    /\ resp.kind = "results"
    /\ \A i \in DOMAIN batch : EntriesFor(i) # {}

C10_RetriesBounded ==
    LET validated == BatchValidated
        failed == FailedIn(validated)
        partial == resp.kind = "results" /\ failed # {} /\ failed # DOMAIN batch
    IN  /\ calls <= 1 + Len(batch)
        /\ calls = (IF resp.kind = "none" THEN 0 ELSE 1) + Cardinality(Retried)
        /\ (Retried # {} \/ pc = "retrying") => (partial /\ raised = None)
        /\ Retried \subseteq failed
        /\ Len(missing) = Cardinality(Missing)
        /\ pc = "retrying" =>
              /\ missing # << >>
              /\ Missing \cup Retried = failed
              /\ Missing \cap Retried = {}
        /\ pc = "done" =>
              /\ missing = << >>
              /\ partial => Retried = failed
        /\ \A i \in DOMAIN batch :
              (resp.kind = "results" /\ i \notin failed) => out[i] = validated[i]

\* three lines, one validated by the batch, two retried: one retry succeeded
\* and one failed without raising to the caller
C10_Witness ==
    /\ pc = "done"
    /\ Len(batch) = 3
    /\ calls = 3
    /\ raised = None
    /\ \E i, j \in DOMAIN batch :
          /\ retry[i] = "accepted" /\ out[i].ok
          /\ retry[j] \notin {"none", "accepted"} /\ ~out[j].ok


\* whether the scan's refinement did not apply: disabled, misconfigured, or
\* the refiner raised or returned nothing
RefinementNotApplied ==
    \/ ~scanreq.llm_enabled
    \/ stripped_text(scanreq.endpoint) = << >> \/ stripped_text(scanreq.model) = << >>
    \/ scanreq.max_lines_per_scan <= 0
    \/ scanresp.refiner.called
         /\ (scanresp.refiner.raised \/ scanresp.refiner.refined = << >>)

\* C11: whenever refinement does not apply to a scan, the response reports
\* every analysable line with its deterministic verdict (meter, confidence,
\* token patterns) together with a reason string.
C11_DeterministicVerdictKept ==
    (pc = "responded" /\ RefinementNotApplied) =>
        LET analyses == scan_analyses(scanreq.lines)
        IN  /\ scanresp.error.set /\ scanresp.error.message # ""
            /\ \A k \in 1..Len(analyses) :
                 \E i \in 1..Len(scanresp.results) :
                    /\ scanresp.results[i].lnum = analyses[k].line_no
                    /\ scanresp.results[i].verdict.meter_name = analyses[k].meter_name
                    /\ scanresp.results[i].verdict.confidence = analyses[k].confidence
                    /\ scanresp.results[i].token_patterns = analyses[k].token_patterns

C13_OneCallPerKey ==
    pc = "cache" =>
        /\ lock \in 0..cfg.threads
        /\ \A t \in DOMAIN threads :
              (lock = t) => threads[t].pc \in LockedPositions
        /\ \A t, u \in DOMAIN threads :
              (t # u) => (InFlight(threads[t]) \cap InFlight(threads[u]) = {})


\* what C14 asks of a step of thread t
CooldownStep(t) ==
    LET th == threads[t]
        nx == threads'[t]
        active == now < cooldown_until
    IN  /\ (/\ th.pc = "line_check" /\ lock = t /\ nx # th /\ active
            /\ ~cache[cache_key(th.cur.source_text)].ok)
           => /\ nx.sent = th.sent /\ InFlight(nx) = {}
              /\ (th.fb = 0) => (nx.pc = "idle" /\ nx.ret = Returned("line", NoRefinement))
              /\ (th.fb > 0) => (nx.refinements = th.refinements)
        /\ (th.pc = "lines_check" /\ lock = t /\ nx # th /\ active)
           => /\ nx.sent = 0 /\ InFlight(nx) = {}
              /\ nx.pc = "idle" /\ nx.ret = Returned("lines", NoRefinements)
        /\ (th.pc = "line_final" /\ lock = t /\ nx # th)
           => /\ (~th.l_timeout /\ ~th.l_ref.ok /\ cfg.error_cooldown > 0)
                 => (cooldown_until' = now + cfg.error_cooldown)
              /\ th.l_timeout => (~th.l_ref.ok /\ cooldown_until' = cooldown_until)
        /\ (th.pc = "lines_final" /\ lock = t /\ nx # th)
           => /\ (/\ ~th.had_timeout /\ IsEmptyDict(th.refinements)
                  /\ cfg.error_cooldown > 0)
                 => (cooldown_until' = now + cfg.error_cooldown)
              /\ th.had_timeout => (cooldown_until' = cooldown_until)

\* C14: a refine_line or refine_lines call that ends without a refinement
\* and without a timeout among its own transport calls starts a cooldown of
\* error_cooldown ticks; a call whose first block finds the cooldown active
\* makes no transport call for an uncached line (refine_line returns None,
\* refine_lines returns {}); a call that timed out leaves the cooldown as
\* it was.
C14_Cooldown == [][pc = "cache" => \A t \in DOMAIN threads : CooldownStep(t)]_vars

\* a refine_lines call skipped in a cooldown that a failed call started,
\* while the response that failed is on record as the last error
C14_Witness ==
    /\ pc = "cache"
    /\ now < cooldown_until
    /\ llm_error = "llm_http_error"
    /\ \E t \in DOMAIN threads :
          /\ threads[t].op = "lines" /\ threads[t].ret.done
          /\ threads[t].cool /\ threads[t].sent = 0

\* C15: a request that finds its key in the cache returns the cached
\* refinement without a transport call, as long as clear_cache has not been
\* called; a batch sends only its uncached lines.
C15_CachedServed ==
    pc = "cache" =>
        \A t \in DOMAIN threads :
            LET th == threads[t]
            IN  (th.ret.done /\ th.hits # {} /\ th.cleared_at = cleared) =>
                  /\ (th.op = "line") => (th.ret.value.ok /\ th.sent = 0)
                  /\ (th.op = "lines") =>
                        /\ \A i \in th.hits : th.ret.value[th.req[i].line_no].ok
                        /\ \A i \in th.hits : \A j \in 1..Len(th.pending) :
                              th.pending[j] # th.req[i]
                        /\ (th.hits = 1..Len(th.req)) => (th.sent = 0)


\* the claimed length rule: n syllables fit (foot, count) when count is in
\* 1..6 and n is the feet's length plus 0 or 1 for iambic, minus 1 or 0 for
\* the other feet
FitsMeter(n, foot, count) ==
    /\ foot \in {"iambic", "trochaic", "anapestic", "dactylic"}
    /\ count \in 1..6
    /\ LET unit == IF foot \in {"iambic", "trochaic"} THEN 2 ELSE 3
       IN  IF foot = "iambic" THEN n - unit * count \in {0, 1}
           ELSE n - unit * count \in {0 - 1, 0}

\* a reported meter name is one of a pair that fits n syllables
FitsName(n, meter_name) ==
    \E foot \in FootNames, count \in 1..6 :
        meter_name = MeterName(foot, count) /\ FitsMeter(n, foot, count)

\* C16: a meter the engine reports for n syllables, from analyze_line or
\* from best_meter_for_stress_pattern, is a pair (foot, count) with count in
\* 1..6 that fits n by the foot's length deltas; no other pair is evaluated;
\* U,S,U,S,U,S,U,S,U is reported as iambic tetrameter.
C16_ReportedMeterFits ==
    /\ (analysis.ok /\ analysis.meter_name # << >>)
          => FitsName(analysis.n_syllable_positions, analysis.meter_name)
    /\ verdict.ok =>
          /\ (verdict.meter_name # << >>) => FitsName(Len(stress_in), verdict.meter_name)
          /\ \A k \in 1..Len(verdict.candidates) :
                FitsMeter(Len(stress_in), verdict.candidates[k].foot_name,
                          verdict.candidates[k].feet)
          /\ (stress_in = AsPattern(<<0, 1, 0, 1, 0, 1, 0, 1, 0>>))
                => (verdict.meter_name = <<"iambic", "tetrameter">>)

\* the nine alternating syllables were rescored, to iambic tetrameter
C16_Witness ==
    /\ verdict.ok
    /\ stress_in = AsPattern(<<0, 1, 0, 1, 0, 1, 0, 1, 0>>)
    /\ verdict.meter_name = <<"iambic", "tetrameter">>
    /\ Len(verdict.candidates) > 1

\* C17: a pattern that is exactly k repetitions of a foot, k in 1..6, is
\* classified as that foot and k; five iambs score at least 0.80 with margin
\* at least 0.05, four trochees at least 0.75, four anapests and six dactyls
\* at least 0.72 with margin at least 0.03.
C17_ExactRepetitions ==
    verdict.ok =>
        /\ \A foot \in FootNames, k \in 1..6 :
              (stress_in = template_for_meter(foot, k))
                 => (verdict.meter_name = MeterName(foot, k))
        /\ (stress_in = template_for_meter("iambic", 5))
              => (verdict.score >= Pct(80) /\ verdict.margin >= Pct(5))
        /\ (stress_in = template_for_meter("trochaic", 4)) => (verdict.score >= Pct(75))
        /\ (\/ stress_in = template_for_meter("anapestic", 4)
            \/ stress_in = template_for_meter("dactylic", 6))
              => (verdict.score >= Pct(72) /\ verdict.margin >= Pct(3))

\* six dactyls, the longest repetition, were classified as dactylic hexameter
C17_Witness ==
    /\ verdict.ok
    /\ stress_in = template_for_meter("dactylic", 6)
    /\ verdict.meter_name = <<"dactylic", "hexameter">>


\* C18: the pattern-rescore rule fires exactly when the engine's best meter
\* for the LLM's pattern is non-empty, differs from the LLM's meter and has
\* score >= 0.72 and margin >= 0.10; it then returns the engine's meter,
\* min(confidence, score) and 'pattern_rescore'; iambic pentameter at 0.85
\* with margin 0.15 against trochaic tetrameter fires, confidence <= 0.85.
C18_PatternRescore ==
    rule_hits.ok =>
        LET c == octx.ctx
            r == rule_hits.rescore
        IN  /\ r.hit <=> (/\ c.pattern_best_meter # << >>
                          /\ c.pattern_best_meter # c.meter_name
                          /\ c.pattern_best_score >= Pct(72)
                          /\ c.pattern_best_margin >= Pct(10))
            /\ r.hit => /\ r.meter_name = c.pattern_best_meter
                        /\ r.conf = Min(c.conf, c.pattern_best_score)
                        /\ r.reason = "pattern_rescore"
            /\ (/\ c.pattern_best_meter = <<"iambic", "pentameter">>
                /\ c.pattern_best_score = Pct(85) /\ c.pattern_best_margin = Pct(15)
                /\ c.meter_name = <<"trochaic", "tetrameter">>)
               => (r.hit /\ r.meter_name = <<"iambic", "pentameter">>
                   /\ r.conf <= Pct(85))

\* the rule fired at exactly its two thresholds
C18_Witness ==
    /\ rule_hits.ok /\ rule_hits.rescore.hit
    /\ octx.ctx.pattern_best_score = Pct(72)
    /\ octx.ctx.pattern_best_margin = Pct(10)
    /\ octx.ctx.meter_name = <<"trochaic", "tetrameter">>
    /\ rule_hits.rescore.meter_name = <<"iambic", "pentameter">>

FootOf(meter_name) == IF meter_name = << >> THEN "" ELSE meter_name[1]

\* C20: at any line length the guard fires when the LLM's meter is trochaic
\* and the engine's best fit is an iambic meter, and yields that meter; it
\* returns no override when the LLM's meter is not trochaic.
C20_TrochaicForIambic ==
    rule_hits.ok =>
        LET c == octx.ctx
            r == rule_hits.guard
        IN  /\ (/\ FootOf(c.meter_name) = "trochaic"
                /\ FootOf(c.pattern_best_meter) = "iambic"
                /\ c.pattern_best_score >= Pct(68)
                /\ c.pattern_best_margin >= Pct(3)
                /\ c.conf <= Pct(75))
               => (r.hit /\ r.meter_name = c.pattern_best_meter
                   /\ r.reason = "iambic_guard")
            /\ (FootOf(c.meter_name) # "trochaic") => ~r.hit

C22_DominantSmoothing ==
    rule_hits.ok =>
        LET c == octx.ctx
            r == rule_hits.smoothing
            dom == score_stress_pattern_for_meter(c.stress_pattern, c.dominant_meter)
            cur == score_stress_pattern_for_meter(c.stress_pattern, c.meter_name)
            fires == /\ c.dominant_meter # << >>
                     /\ c.dominant_ratio >= Pct(75)
                     /\ c.dominant_line_count >= 6
                     /\ c.meter_name # c.dominant_meter
                     /\ c.conf <= Pct(65)
                     /\ dom.ok /\ cur.ok
                     /\ dom.score - cur.score >= Pct(8)
        IN  /\ r.hit <=> fires
            /\ r.hit => /\ r.meter_name = c.dominant_meter
                        /\ r.reason = "dominant_smoothing"
            /\ (/\ c.dominant_meter = <<"iambic", "pentameter">>
                /\ c.dominant_ratio = Pct(85) /\ c.dominant_line_count = 12
                /\ c.meter_name # c.dominant_meter /\ c.conf = Pct(50)
                /\ dom.ok /\ cur.ok /\ dom.score - cur.score >= Pct(8))
               => (r.hit /\ r.meter_name = <<"iambic", "pentameter">>)

\* the rule fired at its ratio, line-count and confidence limits, switching
\* a trochaic pentameter verdict on an alternating ten-syllable line
C22_Witness ==
    /\ rule_hits.ok /\ rule_hits.smoothing.hit
    /\ octx.ctx.dominant_ratio = Pct(75)
    /\ octx.ctx.dominant_line_count = 6
    /\ octx.ctx.conf = Pct(65)
    /\ octx.ctx.meter_name = <<"trochaic", "pentameter">>
    /\ octx.ctx.stress_pattern = <<"U", "S", "U", "S", "U", "S", "U", "S", "U", "S">>
    /\ rule_hits.smoothing.meter_name = <<"iambic", "pentameter">>

\* the entry's meter name and token patterns pass validation for baseline b:
\* the entry is accepted once it states an ordinary confidence
ValidButConfidence(item, b) ==
    /\ item.isdict
    /\ validate_item([item EXCEPT !.confidence = Num(Pct(90)),
                                  !.meter_confidence = Null], b).ok

\* C23: an entry of the batch response that states no numeric confidence is
\* rejected, and an entry with a valid meter name and valid token patterns
\* whose confidence is a number, 0 and numbers outside [0,1] included, is
\* accepted with that confidence clamped into [0,1].
C23_NumericConfidenceAccepted ==
    (pc \in {"retrying", "done"} /\ resp.kind = "results") =>
        \A i \in DOMAIN batch : \A k \in EntriesFor(i) :
            LET item == resp.results[k]
                validated == BatchValidated[i]
            IN  EntriesFor(i) = {k} =>
                   /\ (item.confidence.t # "num" /\ item.meter_confidence.t # "num")
                      => ~validated.ok
                   /\ (item.confidence.t = "num" /\ ValidButConfidence(item, batch[i]))
                      => /\ validated.ok
                         /\ validated.confidence = Clamp01(item.confidence.v)

\* C24: the stages after the engine never write to a baseline LineAnalysis:
\* through LLM refinement, the merge of a refinement and override
\* arbitration the baseline record and the lists it refers to (tokens,
\* token_patterns, stress pattern, meter name, confidence) stay as
\* analyze_line returned them, and the refined or overridden values are in
\* records constructed anew.
C24_BaselineUnchanged ==
    frame.given =>
        /\ deep(heap, frame.baseline) = frame.snapshot
        /\ frame.refinement # frame.baseline
        /\ frame.product # 0 =>
              LET p == heap.recs[frame.product]
                  r == heap.recs[frame.refinement]
              IN  /\ frame.product \notin {frame.baseline, frame.refinement}
                  /\ frame.flavour = "sublime" =>
                        /\ frame.override_meter =>
                              p.v.meter_name = r.meter_name
                              /\ p.v.confidence = r.confidence
                        /\ frame.override_stress => p.v.stress_pattern = r.stress_pattern
                  /\ frame.flavour = "nvim" =>
                        /\ p.v.meter_name_llm = r.meter_name
                        /\ heap.lists[p.token_patterns] = heap.lists[r.token_patterns]

\* a merge that overrode meter and stress: the merged record differs from
\* the baseline in both, shares the baseline's tokens list, and the baseline
\* is as it was
C24_Witness ==
    /\ frame.given /\ frame.flavour = "sublime" /\ frame.product # 0
    /\ LET p == heap.recs[frame.product]
           a == heap.recs[frame.baseline]
       IN  /\ p.v.meter_name # a.v.meter_name
           /\ p.v.stress_pattern # a.v.stress_pattern
           /\ p.token_patterns # a.token_patterns
           /\ p.tokens = a.tokens
    /\ deep(heap, frame.baseline) = frame.snapshot

\* the place of a meter in the order _candidate_meters_for_syllables yields
CandidateRank(p) ==
    6 * ((CHOOSE k \in 1..Len(Feet) : Feet[k] = p.foot_name) - 1) + p.feet

C26_EnsureRunning ==
    sidecar.given =>
        \A t \in 1..MaxCallers :
            LET c == sidecar.callers[t]
            IN  /\ c.launched # 0 => (~c.cooling /\ ~c.live_healthy)
                /\ (c.entry_proc # 0 /\ c.pc = "done")
                      => (c.ret = c.seen_port /\ c.ret # 0 /\ c.launched = 0)
                /\ c.cooling => (c.pc = "done" /\ c.ret = 0 /\ c.launched = 0)
                /\ c.failed_at # 0
                      => /\ c.launched # 0
                         /\ sidecar.procs[c.launched].state = "exited"
                         /\ c.ret = 0
                         /\ sidecar.cooldown_until
                               >= c.failed_at + sidecar.config.cooldown

\* one caller's start timed out and its process was terminated; the other
\* caller then called within the cooldown and got None, with one process
\* ever launched
C26_Witness ==
    /\ sidecar.given
    /\ sidecar.config.cooldown > 0
    /\ Len(sidecar.procs) = 1
    /\ \E t \in 1..MaxCallers : \E u \in 1..MaxCallers :
          /\ t # u
          /\ sidecar.callers[t].pc = "done"
          /\ sidecar.callers[t].failed_at >= sidecar.callers[t].deadline
          /\ sidecar.callers[t].launched = 1
          /\ sidecar.procs[1].state = "exited"
          /\ sidecar.callers[u].pc = "done"
          /\ sidecar.callers[u].now >= sidecar.callers[t].failed_at
          /\ sidecar.callers[u].cooling
          /\ sidecar.callers[u].ret = 0

\* a second call finds the launched process alive and healthy and returns
\* the endpoint the launching call returned
C26_ReuseReached ==
    /\ sidecar.given
    /\ Len(sidecar.procs) = 1
    /\ \E t \in 1..MaxCallers : \E u \in 1..MaxCallers :
          /\ t # u
          /\ sidecar.callers[t].pc = "done" /\ sidecar.callers[t].launched = 1
          /\ sidecar.callers[t].ret # 0
          /\ sidecar.callers[u].pc = "done" /\ sidecar.callers[u].entry_proc = 1
          /\ sidecar.callers[u].ret = sidecar.callers[t].ret
          /\ sidecar.callers[u].now >= sidecar.callers[t].now

\* the template position an Insert may skip, as the aligner enables it: the
\* first one for anapestic feet, the last one for the others
InsertSkips(foot, m) == IF foot = "anapestic" THEN {1} ELSE {m}

\* the cost of matching syllables[i] as option k against template position j
MatchCost(syllables, foot, template, i, k, j) ==
    syllables[i].options[k].cost
    + (IF syllables[i].options[k].stress = template[j] THEN 0
       ELSE mismatch_cost_at(foot, j - 1))

RECURSIVE SumTo(_, _)
SumTo(f, k) == IF k = 0 THEN 0 ELSE f[k] + SumTo(f, k - 1)

\* every alignment of the syllables with the template, as the stress string
\* it spells and its total cost: a choice of one option per matched syllable,
\* with the trailing syllable deleted as U (iambic, n = m + 1) or one
\* template position skipped (n = m - 1)
Alignments(syllables, foot, template) ==
    LET n == Len(syllables)
        m == Len(template)
        Choices(k) == [1..k -> 1..2]
    IN  IF n = m
        THEN {[pat |-> [i \in 1..n |-> syllables[i].options[ch[i]].stress],
               cost |-> SumTo([i \in 1..n |->
                                  MatchCost(syllables, foot, template, i, ch[i], i)], n)]
                 : ch \in Choices(n)}
        ELSE IF n = m + 1 /\ foot = "iambic"
        THEN {[pat |-> [i \in 1..n |-> IF i = n THEN "U"
                                       ELSE syllables[i].options[ch[i]].stress],
               cost |-> SumTo([i \in 1..m |->
                                  MatchCost(syllables, foot, template, i, ch[i], i)], m)
                        + OptionCost(syllables[n].options, "U", 0)
                        + FEMININE_ENDING_COST]
                 : ch \in Choices(m)}
        ELSE IF n = m - 1
        THEN UNION {
               {[pat |-> [i \in 1..n |-> syllables[i].options[ch[i]].stress],
                 cost |-> SumTo([i \in 1..n |->
                                    MatchCost(syllables, foot, template, i, ch[i],
                                              IF i < skip THEN i ELSE i + 1)], n)
                          + LENGTH_MISMATCH_COST]
                   : ch \in Choices(n)}
               : skip \in InsertSkips(foot, m)}
        ELSE {}

C28_InfeasibleNeverWins ==
    (align.given /\ pc \in {"aligned", "ranked"}) =>
        /\ Alignments(align.syllables, align.foot_name,
                      template_for_meter(align.foot_name, align.feet)) = {}
              => /\ align.result.cost >= INF
                 /\ align.result.pat = DefaultPattern(align.syllables)
        /\ pc = "ranked" =>
              \A foot \in FootNames : \A feet \in 1..6 :
                 Alignments(align.syllables, foot, template_for_meter(foot, feet)) = {}
                    => /\ align.best # MeterName(foot, feet)
                       /\ \A k \in 1..Len(align.paths) :
                             ~(align.paths[k].foot_name = foot
                               /\ align.paths[k].feet = feet)

\* a line one syllable longer than a trochaic template: the accept state is
\* out of reach, and the line is reported with another meter
C28_Witness ==
    /\ align.given /\ pc = "ranked"
    /\ align.foot_name = "trochaic"
    /\ Len(align.syllables) = 2 * align.feet + 1
    /\ align.result.cost >= INF
    /\ align.result.pat = DefaultPattern(align.syllables)
    /\ Len(align.paths) > 1
    /\ align.best # << >>

TestLine == fixed_syllables(<<"U", "S", "U", "S", "U", "S", "U", "S", "U">>)

\* the costs the test expects for its 9-syllable line U S U S U S U S U
TestLineCosts ==
    align.syllables = TestLine =>
        /\ (align.foot_name = "trochaic" /\ align.feet = 5) => align.result.cost > 100
        /\ (align.foot_name = "iambic" /\ align.feet = 4) => align.result.cost < 50

\* C29 as stated: an Insert is relaxed only when n = m - 1, for anapestic and
\* dactylic templates only before any syllable is consumed, and for iambic
\* and trochaic templates only after all n syllables are consumed
C29_TernaryInsertAtStart ==
    (align.given /\ pc \in {"aligned", "ranked"}) =>
        LET n == Len(align.syllables)
            m == Len(template_for_meter(align.foot_name, align.feet))
        IN  /\ \A c \in align.inserts :
                  /\ n = m - 1
                  /\ align.foot_name \in {"anapestic", "dactylic"} => c[1] = 0
                  /\ align.foot_name \in {"iambic", "trochaic"} => c[1] = n
            /\ TestLineCosts

\* C29, amended: an Insert is relaxed only when n = m - 1; for anapestic
\* templates only out of cell (0, 0), before any syllable is consumed; for
\* iambic, trochaic and dactylic templates only after all n syllables are
\* consumed; and it is relaxed whenever n = m - 1
C29_InsertPlacement ==
    (align.given /\ pc \in {"aligned", "ranked"}) =>
        LET n == Len(align.syllables)
            m == Len(template_for_meter(align.foot_name, align.feet))
        IN  /\ \A c \in align.inserts :
                  /\ n = m - 1
                  /\ align.foot_name = "anapestic" => (c[1] = 0 /\ c[2] = 0)
                  /\ align.foot_name # "anapestic" => c[1] = n
            /\ n = m - 1 => align.inserts # {}
            /\ TestLineCosts

\* a dactylic line one syllable short: the Insert is relaxed at its end
C29_Witness ==
    /\ align.given /\ pc = "aligned"
    /\ align.foot_name = "dactylic"
    /\ Len(align.syllables) = 3 * align.feet - 1
    /\ align.inserts = {<<Len(align.syllables), Len(align.syllables)>>}
    /\ align.result.cost < INF

\* the test's line has been aligned with trochaic pentameter
C29_TestLineAligned ==
    /\ align.given /\ pc = "aligned"
    /\ align.syllables = TestLine
    /\ align.foot_name = "trochaic" /\ align.feet = 5
    /\ align.inserts # {}

\* C30: with c[j] the cost of a mismatched Match at template position j,
\* for iambic and trochaic templates c is least at the first position, less
\* anywhere in the first foot than in any later foot, and in later feet less
\* where the template expects a weak syllable (a stressed one stands there)
\* than where it expects a stressed one; for anapestic and dactylic
\* templates c is the same at every position
C30_GraduatedMismatch ==
    (align.given /\ pc \in {"aligned", "ranked"}) =>
        LET template == template_for_meter(align.foot_name, align.feet)
            c == align.mismatch
            later == {j \in 1..Len(c) : j > 2}
        IN  IF align.foot_name \in {"iambic", "trochaic"}
            THEN /\ \A j \in 2..Len(c) : c[1] < c[j]
                 /\ \A j \in 1..2 : \A k \in later : c[j] < c[k]
                 /\ \A j \in later : \A k \in later :
                       (template[j] = "U" /\ template[k] = "S") => c[j] < c[k]
            ELSE \A j \in 1..Len(c) : \A k \in 1..Len(c) : c[j] = c[k]

SubstitutionLine == fixed_syllables(<<"U", "S", "U", "S", "U", "U", "S", "U", "S", "U", "S">>)

\* C31: the 11-syllable line U S U S U U S U S U S, regular iambic
\* pentameter but for one extra unstressed syllable in the middle, aligns
\* to iambic pentameter with a cost below 1.0, and below its cost against
\* trochaic hexameter
C31_AnapesticSubstitution ==
    (/\ align.given /\ pc \in {"aligned", "ranked"}
     /\ align.syllables = SubstitutionLine
     /\ align.foot_name = "iambic" /\ align.feet = 5) =>
        /\ align.result.cost < 100
        /\ align.result.cost < viterbi_for_meter(SubstitutionLine, "trochaic", 6).cost

\* the syllables ranked: those analyze_line built, or the pattern's symbols
RankedSyllables ==
    IF rank.kind = "line" THEN Len(line_syllables(rank.line))
    ELSE Len(stress_symbols(rank.stress_pattern))

\* the feet of the iambic meter preferred at n syllables, 0 for none
BiasTarget(n) == IF n \in {10, 11} THEN 5 ELSE IF n \in {12, 13} THEN 6 ELSE 0

IsIambicTarget(c) == c.foot_name = "iambic" /\ c.feet = BiasTarget(RankedSyllables)

\* the iambic candidate is ranked, is not on top, and is within 0.10 of the top
IambicReplacesTop ==
    /\ BiasTarget(RankedSyllables) # 0
    /\ ~IsIambicTarget(rank.ranked[1])
    /\ \E k \in 1..Len(rank.ranked) :
          /\ IsIambicTarget(rank.ranked[k])
          /\ rank.ranked[k].score >= rank.ranked[1].score - Pct(10)

Ranked == rank.given /\ pc \in {"ranked", "boosted"} /\ rank.reported.ok /\ rank.ranked # << >>

C32_PatternReached ==
    /\ Ranked /\ rank.kind = "pattern"
    /\ RankedSyllables \in {10, 11}
    /\ IambicReplacesTop
    /\ rank.reported.meter_name = <<"iambic", "pentameter">>

\* a line of 10 to 13 syllables whose iambic candidate is too far behind
C32_TooFarReached ==
    /\ Ranked /\ rank.kind = "line"
    /\ BiasTarget(RankedSyllables) # 0
    /\ ~IsIambicTarget(rank.ranked[1])
    /\ ~IambicReplacesTop

\* the ranked candidates other than the reported meter
OtherCandidates ==
    {k \in 1..Len(rank.ranked) :
        MeterName(rank.ranked[k].foot_name, rank.ranked[k].feet) # rank.reported.meter_name}

\* the highest score among them
HighestOther ==
    LET S == {rank.ranked[k].score : k \in OtherCandidates}
    IN  CHOOSE x \in S : \A y \in S : y <= x

\* C33 as stated: the margin is the reported meter's score minus the highest
\* score among the other candidates, and is never negative
C33_MarginIsDifference ==
    (Ranked /\ OtherCandidates # {}) =>
        /\ rank.reported.margin = rank.reported.confidence - HighestOther
        /\ rank.reported.margin >= 0

\* C33, amended: the margin is the reported meter's score minus the highest
\* score among the other candidates where that is positive and 0 where it is
\* not (the iambic tie-break preferred a meter that scores below the top
\* one); it is the reported score itself when there is no other candidate;
\* so in analyze_line and in best_meter_for_stress_pattern alike
C33_MarginClamped ==
    Ranked =>
        /\ rank.reported.margin
             = Max(0, rank.reported.confidence
                        - (IF OtherCandidates = {} THEN 0 ELSE HighestOther))
        /\ rank.reported.margin >= 0

\* a line for which the tie-break reports a meter that scores below the top
\* one: the margin is 0
C33_Witness ==
    /\ Ranked /\ rank.kind = "line" /\ pc = "ranked"
    /\ IambicReplacesTop
    /\ rank.reported.confidence < HighestOther
    /\ rank.reported.margin = 0

\* the same for a stress pattern
C33_PatternReached ==
    /\ Ranked /\ rank.kind = "pattern"
    /\ IambicReplacesTop
    /\ rank.reported.confidence < HighestOther
    /\ rank.reported.margin = 0

\* a line with a single candidate: the margin is its score
C33_SingleReached ==
    /\ Ranked /\ rank.kind = "line"
    /\ OtherCandidates = {}
    /\ rank.reported.margin = rank.reported.confidence
    /\ rank.reported.margin > 0

\* the context names a meter of the canonical grammar with a numeric strength
ContextCounts ==
    /\ rank.context.given
    /\ rank.context.dominant_meter # << >>
    /\ \E foot \in {"iambic", "trochaic", "anapestic", "dactylic"},
          line \in {"monometer", "dimeter", "trimeter", "tetrameter",
                    "pentameter", "hexameter"} :
          rank.context.dominant_meter = <<foot, line>>
    /\ rank.context.dominant_strength.t = "num"

\* 0.12 times the strength clamped to [0, 1]
ClaimedBonus ==
    LET v == rank.context.dominant_strength.v
        clamped == IF v < 0 THEN 0 ELSE IF v > UNIT THEN UNIT ELSE v
    IN  (12 * clamped) \div 100

\* C34: on the ranking of a line under a context, the candidate named by the
\* context's dominant meter has 0.12 times the clamped strength added to its
\* base score (the sum capped at 1.0), at most 0.12, and every other
\* candidate nothing; a context whose meter name is empty or not canonical,
\* or whose strength is not a number, adds nothing to any candidate; every
\* candidate ranked, and so the meter reported, fits the line's syllable
\* count, whatever the context names; and a line analysed again with the
\* meter it received as context has at least the confidence it had
C34_ContextBonus ==
    (rank.given /\ rank.kind = "line" /\ pc \in {"ranked", "boosted"} /\ rank.reported.ok) =>
        /\ \A k \in 1..Len(rank.ranked) :
              LET c == rank.ranked[k]
                  named == ContextCounts
                           /\ MeterName(c.foot_name, c.feet) = rank.context.dominant_meter
              IN  /\ c.context_bonus = (IF named THEN ClaimedBonus ELSE 0)
                  /\ c.context_bonus <= Pct(12)
                  /\ c.score = Min(UNIT, c.base_score + c.context_bonus)
                  /\ FitsMeter(RankedSyllables, c.foot_name, c.feet)
        /\ Cardinality({k \in 1..Len(rank.ranked) : rank.ranked[k].context_bonus > 0}) <= 1
        /\ FitsName(RankedSyllables, rank.reported.meter_name)
        /\ (pc = "boosted" /\ rank.again.ok) =>
              rank.again.confidence >= rank.reported.confidence

\* a line that received more confidence when analysed again with its own
\* meter as context
C34_Witness ==
    /\ rank.given /\ rank.kind = "line" /\ pc = "boosted"
    /\ rank.reported.ok /\ rank.again.ok
    /\ rank.again.meter_name = rank.reported.meter_name
    /\ rank.again.context_bonus > 0
    /\ rank.again.confidence = rank.reported.confidence + rank.again.context_bonus

\* a context whose strength is above 1 has given its candidate 0.12, and the
\* line is reported with another meter
C34_ClampedReached ==
    /\ rank.given /\ rank.kind = "line" /\ pc = "ranked" /\ rank.reported.ok
    /\ ContextCounts /\ rank.context.dominant_strength.v > UNIT
    /\ \E k \in 1..Len(rank.ranked) : rank.ranked[k].context_bonus = Pct(12)
    /\ rank.reported.meter_name # rank.context.dominant_meter

\* a context naming a canonical meter that does not fit the line: no bonus
C34_UnfitReached ==
    /\ rank.given /\ rank.kind = "line" /\ pc = "ranked" /\ rank.reported.ok
    /\ ContextCounts /\ rank.context.dominant_strength.v > 0
    /\ ~FitsName(RankedSyllables, rank.context.dominant_meter)
    /\ \A k \in 1..Len(rank.ranked) : rank.ranked[k].context_bonus = 0


\* the sub-pattern of token t as the validator reads it: stripped,
\* upper-cased and reduced to its U and S symbols
SubPattern(item, t) ==
    SelectSeq(UpperAll(Strip(item.token_stress_patterns.v[t].v)),
              LAMBDA ch : ch \in {"U", "S"})

\* 'S' becomes k-1 times 'U' followed by 'S', 'U' becomes k times 'U'
Expanded(symbol, k) ==
    IF symbol = "S" THEN Repeat("U", k - 1) \o <<"S">> ELSE Repeat("U", k)

\* C35: when the sub-pattern an entry gives for a token of k > 1 syllables is
\* a single symbol, the accepted refinement holds that symbol expanded to k
\* symbols for the token ('S' -> k-1 'U' then 'S', 'U' -> k 'U'), before any
\* other repair is considered.
C35_SingleSymbolExpanded ==
    (pc = "done" /\ EntryPerLine) =>
        \A i \in DOMAIN batch :
           (/\ Cardinality(EntriesFor(i)) = 1
            /\ retry[i] = "none"
            /\ out[i].ok)
           => \A k \in EntriesFor(i) :
                 LET item == resp.results[k]
                 IN  (/\ item.isdict
                      /\ item.token_stress_patterns.t = "list"
                      /\ \A t \in 1..Len(item.token_stress_patterns.v) :
                            item.token_stress_patterns.v[t].t = "str")
                     => \A t \in 1..Min(Len(item.token_stress_patterns.v),
                                        batch[i].ntokens) :
                           (/\ Len(SubPattern(item, t)) = 1
                            /\ Len(batch[i].token_patterns[t]) > 1)
                           => out[i].token_patterns[t] =
                                 Expanded(SubPattern(item, t)[1],
                                          Len(batch[i].token_patterns[t]))


\* C36: the analyses applied to a view always come from the most recently
\* scheduled scan of a view whose annotations are enabled: whenever
\* state.analyses receives the results of a scan, no scan of the view was
\* scheduled after that one, and the view is enabled.
C36_LatestScanApplied ==
    [][(scanner.given /\ scanner'.analyses # scanner.analyses
        /\ scanner'.analyses # 0)
       => (/\ scanner'.analyses = Len(scanner.scans)
           /\ scanner.enabled)]_vars


\* C37: a request that meets an active error cooldown is still served from
\* the cache: a call that found the cooldown active returns the cached
\* refinement of every line it found in the cache, without a transport
\* call, through refine_lines as through refine_line.
C37_CachedDuringCooldown ==
    pc = "cache" =>
        \A t \in DOMAIN threads :
            LET th == threads[t]
            IN  (th.ret.done /\ th.cool /\ th.hits # {}) =>
                  /\ th.sent = 0
                  /\ (th.op = "line") => th.ret.value.ok
                  /\ (th.op = "lines") =>
                        \A i \in th.hits : th.ret.value[th.req[i].line_no].ok


\* the launched processes that have not exited
Running(m) == {p \in 1..Len(m.procs) : m.procs[p].state # "exited"}

\* caller t is inside _wait_until_healthy
Awaiting(m, t) == m.callers[t].pc \in {"waiting", "probing", "sleeping"}

\* this step terminates the managed process
Terminates(m, after, p) ==
    /\ m.process = p /\ after.process # p
    /\ m.procs[p].state # "exited" /\ after.procs[p].state = "exited"

\* at most one launched process is running, and it is the one the manager
\* holds in _process
OneTrackedProcess(m) ==
    /\ Cardinality(Running(m)) <= 1
    /\ \A p \in Running(m) : m.process = p

\* C38: with concurrent callers of ensure_running at most one sidecar
\* process is running, every running process is the one the manager tracks,
\* and no call terminates a process whose launching call is still waiting
\* for it to become healthy.
C38_ConcurrentEnsure ==
    [][sidecar.given =>
         /\ OneTrackedProcess(sidecar')
         /\ \A t \in 1..MaxCallers :
               Awaiting(sidecar, t)
               => ~Terminates(sidecar, sidecar', sidecar.callers[t].launched)]_vars

\* the first two parts alone
C38_OneTracked == sidecar.given => OneTrackedProcess(sidecar)


\* the alignment of the meter analyze_line reports: its _MeterPath
ReportedPaths ==
    {k \in DOMAIN rank.ranked :
        MeterName(rank.ranked[k].foot_name, rank.ranked[k].feet)
            = rank.reported.meter_name}

\* syllable idx of the line: what the aligner chose, what it costs, what the
\* default is
FlipCost(unit, chosen) == OptionCost(unit.options, chosen, POLY_FLIP_COST)

\* C39: in the LineAnalysis of analyze_line a syllable's output stress
\* differs from its default stress only if the aligner chose that flip and
\* its option cost is below 1.0 or the reported meter's context bonus is at
\* least 0.08; every other flip the aligner chose is reverted to the default;
\* the reported meter is one of the ranked alignments and the confidence is
\* that alignment's score, clamped, as before reverting.
C39_CostlyFlipsReverted ==
    (rank.given /\ rank.kind = "line" /\ pc \in {"ranked", "boosted"}
     /\ rank.reported.ok /\ rank.ranked # << >>) =>
        /\ ReportedPaths # {}
        /\ \A k \in ReportedPaths :
              LET best == rank.ranked[k]
                  syllables == line_syllables(rank.line)
                  outp == rank.reported.stress_pattern
                  cheap(idx) == \/ FlipCost(syllables[idx], best.pattern[idx]) < 100
                                \/ best.context_bonus >= Pct(8)
              IN  /\ Len(outp) = Len(syllables)
                  /\ Len(best.pattern) = Len(syllables)
                  /\ \A idx \in 1..Len(syllables) :
                        /\ outp[idx] # syllables[idx].default_stress
                              => (outp[idx] = best.pattern[idx] /\ cheap(idx))
                        /\ (best.pattern[idx] # syllables[idx].default_stress
                            /\ ~cheap(idx))
                              => outp[idx] = syllables[idx].default_stress
                  /\ rank.reported.confidence = Clamp01(best.score)
                  /\ rank.reported.context_bonus = best.context_bonus

\* a flip the aligner chose at a cost of 1.0 or more was reverted in the
\* output, on a line analysed without a context bonus
C39_Witness ==
    /\ rank.given /\ rank.kind = "line" /\ pc = "ranked" /\ rank.reported.ok
    /\ \E k \in ReportedPaths :
          LET best == rank.ranked[k]
              syllables == line_syllables(rank.line)
          IN  /\ best.context_bonus = 0
              /\ \E idx \in 1..Len(syllables) :
                    /\ best.pattern[idx] # syllables[idx].default_stress
                    /\ FlipCost(syllables[idx], best.pattern[idx]) >= 100
                    /\ rank.reported.stress_pattern[idx] = syllables[idx].default_stress

\* a flip costing 1.0 or more is kept in the output under a context bonus
C39_KeptReached ==
    /\ rank.given /\ rank.kind = "line" /\ pc = "ranked" /\ rank.reported.ok
    /\ \E k \in ReportedPaths :
          LET best == rank.ranked[k]
              syllables == line_syllables(rank.line)
          IN  /\ best.context_bonus >= Pct(8)
              /\ \E idx \in 1..Len(syllables) :
                    /\ FlipCost(syllables[idx], best.pattern[idx]) >= 100
                    /\ rank.reported.stress_pattern[idx] # syllables[idx].default_stress

\* a flip costing less than 1.0 is kept in the output without a context
C39_CheapReached ==
    /\ rank.given /\ rank.kind = "line" /\ pc = "ranked" /\ rank.reported.ok
    /\ rank.reported.context_bonus = 0
    /\ \E idx \in 1..Len(rank.reported.stress_pattern) :
          rank.reported.stress_pattern[idx]
              # line_syllables(rank.line)[idx].default_stress


\* the text of a name matches ^\s*(foot)\s+(line name)\s*$
MatchesGrammar(text) == IsCanonicalName(text.words)

\* the line is one on which an iambic name is made pentameter
IambicLength(n) == 9 <= n /\ n <= 11

\* C40 as stated: a name that matches the canonical grammar is returned
\* unchanged (blanks aside) for every line length, only names that do not match it are
\* rewritten, and canonicalising the result again changes nothing.
C40_CanonicalUnchanged ==
    (canon.given /\ pc \in {"canonical", "again"}) =>
        /\ MatchesGrammar(canon.raw) => canon.name.words = canon.raw.words
        /\ pc = "again" => canon.again = canon.name

\* C40 amended: a name that matches the canonical grammar keeps its foot and
\* its line name, except that an iambic name on a line of 9 to 11 syllables
\* (or with no syllable count, taken as 10) becomes iambic pentameter; the
\* text returned has its blanks normalised; canonicalising the result again
\* for the same line changes nothing.
C40_CanonicalKept ==
    (canon.given /\ pc \in {"canonical", "again"}) =>
        LET n == IF canon.syllables = 0 THEN 10 ELSE canon.syllables
        IN  /\ MatchesGrammar(canon.raw) =>
                 /\ canon.name.words =
                       IF canon.raw.words[1] = "iambic" /\ IambicLength(n)
                       THEN <<"iambic", "pentameter">> ELSE canon.raw.words
                 /\ ~canon.name.padded
            /\ pc = "again" => canon.again = canon.name

\* 'iambic tetrameter' for a line of 9 syllables came back as iambic
\* pentameter, and canonicalising that again changed nothing
C40_Witness ==
    /\ canon.given /\ pc = "again"
    /\ canon.raw = [words |-> <<"iambic", "tetrameter">>, padded |-> FALSE]
    /\ canon.syllables = 9
    /\ canon.name.words = <<"iambic", "pentameter">>
    /\ canon.again = canon.name

\* 'iambs' on a 4-syllable line became iambic dimeter
C40_IambsReached ==
    /\ canon.given /\ pc = "again"
    /\ canon.raw.words = <<"iambs">> /\ canon.syllables = 4
    /\ canon.name.words = <<"iambic", "dimeter">>
    /\ canon.again = canon.name

\* a canonical name came back as it was given
C40_UnchangedReached ==
    /\ canon.given /\ pc = "again"
    /\ canon.raw = [words |-> <<"trochaic", "tetrameter">>, padded |-> FALSE]
    /\ canon.syllables = 9
    /\ canon.name = canon.raw

====
